---- MODULE Spec2Model ----
(***************************************************************************)
(* The `add` and `init` project commands of uv                             *)
(* (crates/uv/src/commands/project/{add,init}.rs) as a state machine: one  *)
(* invocation at a time runs over a persistent pyproject.toml on disk.     *)
(* Every await / `?` stage of a command is one action; the collaborators   *)
(* that live in other crates (the requirement resolvers, the source        *)
(* classifier, the manifest editor, do_lock / do_sync) are modelled from   *)
(* their documented contract.                                              *)
(***************************************************************************)
EXTENDS Integers, Sequences, FiniteSets, TLC

\* ------------------------------------------------------------------ bounds
\* Longest requirement batch given to `uv add`.
MaxBatch == 2
\* Number of consecutive invocations of one command line that are followed.
MaxRuns == 2

\* ------------------------------------------------------------- Option<T>
None == <<>>
Some(x) == <<x>>
IsSome(o) == Len(o) = 1
Unwrap(o) == o[1]

\* ------------------------------------------------------------ requirements
\* A requirement as handed to the resolvers.  `loc` is the URL / path it
\* carries ("" for a bare name), `pinned` whether a Git URL pins a reference,
\* `named` whether the user wrote its name, `extras` a Vec<ExtraName> (extra
\* names are numbered so that they can be sorted), `marker` its marker in
\* disjunctive normal form, `requirements` the declared dependencies when the
\* unit is a source tree.
Req(name, named, kind, loc, pinned, extras) ==
    [name |-> name, named |-> named, kind |-> kind, loc |-> loc,
     pinned |-> pinned, extras |-> extras, marker |-> <<>>,
     requirements |-> <<>>, creds |-> ""]

\* The requirement with `creds` embedded in its URL (the userinfo component;
\* "" is none).  `loc` is the URL without it.
WithCreds(r, creds) == [r EXCEPT !.creds = creds]

ReqA == Req("a", TRUE, "registry", "", FALSE, <<>>)
ReqGit == Req("b", FALSE, "git", "https://example.com/b.git", FALSE, <<>>)
ReqGitPinned ==
    WithCreds(Req("b", TRUE, "git", "https://example.com/b.git", TRUE, <<>>),
              "u1")
\* Another package of the same repository, fetched with other credentials.
ReqGitOther ==
    WithCreds(Req("c", TRUE, "git", "https://example.com/b.git", TRUE, <<>>),
              "u2")
ReqPath == Req("c", TRUE, "path", "./c", FALSE, <<2>>)
ReqMember == Req("w", TRUE, "path", "./w", FALSE, <<>>)

\* The requirements `uv add` is run with.
AddReqs == {ReqA, ReqGit, ReqGitPinned, ReqPath, ReqMember}

Names == {"a", "b", "c", "w"}

\* project.workspace().packages(): the members of the project's workspace.
WorkspacePackages == {"w"}

\* The reference a pinned Git URL carries.
PinnedRev == "0123abc"

Batches == UNION {[1..n -> AddReqs] : n \in 0..MaxBatch}

\* ---------------------------------------------------------------- manifest
\* ExtraName: the extras, which also name the optional-dependency groups.
ExtraNames == {1, 2}
Groups == ExtraNames

\* The text of a pyproject.toml, by the tables the commands touch.  `exists`
\* is FALSE when there is no file, `ok` is FALSE for text that does not parse.
Text(deps, dev, opt, sources) ==
    [exists |-> TRUE, ok |-> TRUE, deps |-> deps, dev |-> dev, opt |-> opt,
     sources |-> sources, layout |-> "plain"]

\* The text with the user's own whitespace, comments and key order.
UserLayout(text) == [text EXCEPT !.layout = "user"]

NoSources == [n \in Names |-> None]
NoOptional == [g \in Groups |-> <<>>]
EmptyText == Text(<<>>, <<>>, NoOptional, NoSources)
NoFile == [EmptyText EXCEPT !.exists = FALSE, !.ok = FALSE]
Malformed == [EmptyText EXCEPT !.ok = FALSE]

\* The in-memory document (PyProjectTomlMut).
Doc(text) ==
    [deps |-> text.deps, dev |-> text.dev, opt |-> text.opt,
     sources |-> text.sources, layout |-> text.layout]
EmptyDoc == Doc(EmptyText)

\* pep508_rs::Requirement::from(req): the PEP 508 string of a requirement.
Pep508(r) ==
    [name |-> r.name, extras |-> r.extras,
     url |-> IF r.kind = "registry" THEN "" ELSE r.loc, marker |-> r.marker,
     creds |-> r.creds]

\* clear_url leaving the URL in place.
ClearUrlKeeps(e) == e

\* Requirement::clear_url
ClearUrl(e) == [e EXCEPT !.url = "", !.creds = ""]

\* ------------------------------------------------------------------ extras
\* A marker in disjunctive normal form is a sequence of clauses, each a
\* sequence of atoms.
ExtraAtom(op, name) == [key |-> "extra", op |-> op, value |-> name]
PlatformAtom == [key |-> "sys_platform", op |-> "==", value |-> 0]
OtherPlatformAtom == [key |-> "sys_platform", op |-> "==", value |-> 1]

WithMarker(r, marker) == [r EXCEPT !.marker = marker]

\* A source tree (a directory with a manifest) declaring `requirements`.
Tree(loc, requirements) ==
    [name |-> "", named |-> FALSE, kind |-> "tree", loc |-> loc,
     pinned |-> FALSE, extras |-> <<>>, marker |-> <<>>,
     requirements |-> requirements, creds |-> ""]

\* The projects `uv init --from-project` imports from.
Trees ==
    {Tree("t0", <<>>),
     Tree("t1", <<ReqA>>),
     Tree("t2", <<WithMarker(ReqA, <<<<PlatformAtom>>>>),
                  WithMarker(ReqPath,
                                   <<<<PlatformAtom, ExtraAtom("==", 1)>>>>)>>),
     Tree("t3", <<ReqGitPinned, ReqGit>>),
     Tree("t4", <<ReqGitPinned, ReqGitOther>>),
     Tree("t5", <<WithMarker(ReqA, <<<<ExtraAtom("!=", 1)>>>>),
                  WithMarker(ReqPath,
                             <<<<PlatformAtom, ExtraAtom("==", 2)>>,
                               <<OtherPlatformAtom, ExtraAtom("==", 2)>>>>)>>)}

RECURSIVE Insert(_, _)
\* Insert x into the sorted sequence s, keeping it sorted.
Insert(x, s) ==
    IF s = <<>> THEN <<x>>
    ELSE IF x <= Head(s) THEN <<x>> \o s
    ELSE <<Head(s)>> \o Insert(x, Tail(s))

RECURSIVE SortUnstable(_)
\* Vec::sort_unstable
SortUnstable(s) ==
    IF s = <<>> THEN <<>> ELSE Insert(Head(s), SortUnstable(Tail(s)))

\* dedup left out.
DedupNothing(s) == s

RECURSIVE Dedup(_)
\* Vec::dedup: removes consecutive repeated elements.
Dedup(s) ==
    IF Len(s) <= 1 THEN s
    ELSE IF s[1] = s[2] THEN Dedup(Tail(s))
    ELSE <<s[1]>> \o Dedup(Tail(s))

\* req.extras.extend(extras); req.extras.sort_unstable(); req.extras.dedup()
MergeExtras(r, extras) ==
    [r EXCEPT !.extras = Dedup(SortUnstable(r.extras \o extras))]

\* ------------------------------------------------------- Source Classifier
Ok(v) == [ok |-> TRUE, value |-> v]
Err(kind, detail) == [ok |-> FALSE, kind |-> kind, detail |-> detail]

GitSource(url, rev, tag, branch) ==
    [type |-> "git", git |-> url, rev |-> rev, tag |-> tag, branch |-> branch,
     editable |-> None, creds |-> ""]
PathSource(path, editable) ==
    [type |-> "path", git |-> path, rev |-> "", tag |-> "", branch |-> "",
     editable |-> editable, creds |-> ""]
UrlSource(url) ==
    [type |-> "url", git |-> url, rev |-> "", tag |-> "", branch |-> "",
     editable |-> None, creds |-> ""]
WorkspaceSource(member) ==
    [type |-> "workspace", git |-> member, rev |-> "", tag |-> "",
     branch |-> "", editable |-> None, creds |-> ""]

\* How many of --rev, --tag, --branch were supplied ("" is an absent flag).
Supplied(rev, tag, branch) ==
    (IF rev = "" THEN 0 ELSE 1) + (IF tag = "" THEN 0 ELSE 1)
        + (IF branch = "" THEN 0 ELSE 1)

\* Source::from_requirement taking every flag it is given, without the check
\* that at most one is.
SourceFromRequirementAnyFlags(r, is_member, editable, rev, tag, branch) ==
    IF r.kind = "registry" THEN Ok(None)
    ELSE IF is_member THEN Ok(Some(WorkspaceSource(r.name)))
    ELSE IF r.kind = "git" THEN
        IF Supplied(rev, tag, branch) >= 1
            THEN Ok(Some([GitSource(r.loc, rev, tag, branch)
                            EXCEPT !.creds = r.creds]))
        ELSE IF r.pinned
            THEN Ok(Some([GitSource(r.loc, PinnedRev, "", "")
                            EXCEPT !.creds = r.creds]))
        ELSE Err("UnresolvedReference", r.loc)
    ELSE IF r.kind = "path" THEN
        Ok(Some(PathSource(r.loc,
                           IF IsSome(editable) THEN editable ELSE Some(TRUE))))
    ELSE Ok(Some(UrlSource(r.loc)))

\* Source::from_requirement: Ok(None) is Registry (no source entry).
SourceFromRequirement(r, is_member, editable, rev, tag, branch) ==
    IF r.kind = "registry" THEN Ok(None)
    ELSE IF is_member THEN Ok(Some(WorkspaceSource(r.name)))
    ELSE IF r.kind = "git" THEN
        IF Supplied(rev, tag, branch) > 1
            THEN Err("Other", r.loc)
        ELSE IF Supplied(rev, tag, branch) = 1
            THEN Ok(Some([GitSource(r.loc, rev, tag, branch)
                            EXCEPT !.creds = r.creds]))
        ELSE IF r.pinned
            THEN Ok(Some([GitSource(r.loc, PinnedRev, "", "")
                            EXCEPT !.creds = r.creds]))
        ELSE Err("UnresolvedReference", r.loc)
    ELSE IF r.kind = "path" THEN
        Ok(Some(PathSource(r.loc,
                           IF IsSome(editable) THEN editable ELSE Some(TRUE))))
    ELSE Ok(Some(UrlSource(r.loc)))

\* --------------------------------------------------------- Edit Accumulator
\* The position of the entry named `name` in a dependency list, 0 if none.
FindDependency(list, name) ==
    IF \E k \in 1..Len(list) : list[k].name = name
        THEN CHOOSE k \in 1..Len(list) : list[k].name = name
        ELSE 0

\* Replace the entry of the same name, or append.
PutDependency(list, entry) ==
    IF FindDependency(list, entry.name) = 0 THEN Append(list, entry)
    ELSE [list EXCEPT ![FindDependency(list, entry.name)] = entry]

AddSource(doc, name, source) ==
    IF IsSome(source) THEN [doc EXCEPT !.sources[name] = source] ELSE doc

\* PyProjectTomlMut::add_dependency
AddDependency(doc, entry, source) ==
    AddSource([doc EXCEPT !.deps = PutDependency(doc.deps, entry)],
              entry.name, source)

\* PyProjectTomlMut::add_dev_dependency
AddDevDependency(doc, entry, source) ==
    AddSource([doc EXCEPT !.dev = PutDependency(doc.dev, entry)],
              entry.name, source)

\* PyProjectTomlMut::add_optional_dependency
AddOptionalDependency(doc, entry, group, source) ==
    AddSource([doc EXCEPT !.opt[group] = PutDependency(doc.opt[group], entry)],
              entry.name, source)

\* PyProjectTomlMut::to_string
Render(doc) ==
    [Text(doc.deps, doc.dev, doc.opt, doc.sources) EXCEPT
        !.layout = doc.layout]

\* from_toml keeping the tables but not the layout of the text.
FromTomlPlain(text) ==
    IF text.exists /\ text.ok
        THEN Ok([Doc(text) EXCEPT !.layout = "plain"])
        ELSE Err("Toml", "parse")

\* PyProjectTomlMut::from_toml
FromToml(text) ==
    IF text.exists /\ text.ok THEN Ok(Doc(text)) ELSE Err("Toml", "parse")

\* ------------------------------------------------------------------- tools
\* `uv tool install`: the tools directory holds one environment and one
\* receipt per tool; the executable directory holds the entry points.
ToolNames == {"a", "b"}

\* The names of the files the executable directory may hold.
Executables == {1, 2}

\* What the command line may spell as a requirement.
RequirementStrings == {"a", "a>=1", "b", "?"}

\* pep508_rs::Requirement::from_str
RequirementFromStr(s) ==
    CASE s = "a" -> Ok([name |-> "a", specifier |-> ""])
      [] s = "a>=1" -> Ok([name |-> "a", specifier |-> ">=1"])
      [] s = "b" -> Ok([name |-> "b", specifier |-> ""])
      [] OTHER -> Err("Pep508", s)

\* The entry points the installed distribution of a package declares.
EntrypointPaths(name) == IF name = "a" THEN {1, 2} ELSE {}

\* settings.reinstall
ReinstallNone == [kind |-> "None", packages |-> {}]
ReinstallAll == [kind |-> "All", packages |-> {}]
ReinstallPackages(p) == [kind |-> "Packages", packages |-> p]

ToolArgs ==
    [package : RequirementStrings,
     from : {None} \cup {Some(s) : s \in RequirementStrings},
     force : BOOLEAN,
     reinstall : {ReinstallNone, ReinstallAll, ReinstallPackages({"a"}),
                  ReinstallPackages({"b"})},
     with : {<<>>, <<"b">>, <<"?">>}]

\* The receipt of a tool that an earlier invocation installed.
PreviousReceipt(name) ==
    [requirements |-> <<[name |-> name, specifier |-> ""]>>,
     entrypoints |-> EntrypointPaths(name),
     written |-> "previous"]

\* Nothing installed, and an empty executable directory.
NothingInstalled ==
    [environments |-> [n \in ToolNames |-> "absent"],
     receipts |-> [n \in ToolNames |-> None],
     executables |-> [e \in Executables |-> "absent"]]

\* What an invocation may find: nothing; a file of the user in the
\* executable directory; tool "a" installed; an environment without receipt.
InitialInstalls ==
    {NothingInstalled,
     [NothingInstalled EXCEPT !.executables[1] = "foreign"],
     [NothingInstalled EXCEPT !.environments["a"] = "previous",
                              !.receipts["a"] = Some(PreviousReceipt("a")),
                              !.executables = [e \in Executables |-> "previous"]],
     [NothingInstalled EXCEPT !.environments["a"] = "previous"]}

\* The local variables of `install` before it has assigned any.
NoLocals ==
    [from |-> [name |-> "", specifier |-> ""],
     name |-> "",
     existing_tool_receipt |-> None,
     reinstall_entry_points |-> FALSE,
     requirements |-> <<>>,
     target_entry_points |-> {},
     linked |-> {}]

\* ------------------------------------------------------------------- state
VARIABLES
    disk,       \* the text of the project's pyproject.toml
    runs,       \* invocations started so far
    cmd,        \* the command of the current invocation: "none", "add", "init",
                \* "tool install"
    args,       \* its arguments
    pc,         \* the stage the invocation is at
    status,     \* "running", "Success" (Ok(ExitStatus::Success)) or "Error"
    err,        \* the error returned, when status = "Error"
    units,      \* resolver: the batch being resolved
    task,       \* resolver: the state of the task of each unit
    slot,       \* resolver: the result slot of each unit
    inFlight,   \* InFlight: the fingerprints with a build in progress
    index,      \* InMemoryIndex: the completed result per fingerprint
    builds,     \* how often the metadata build was started, per fingerprint
    order,      \* resolver: the units in the order their slots were filled
    reqs,       \* `requirements`: what the resolver returned
    i,          \* the next requirement of the edit loop
    loaded,     \* the manifest text the invocation loaded
    pyproject,  \* the in-memory manifest being edited
    content,    \* the text rendered after the edit loop
    edits,      \* init: `edits`, the DependencyEdit of each manifest edit
    lock,       \* the Lock do_lock returned
    syncArgs,   \* the arguments do_sync was called with
    trace,      \* the side effects of the invocation, in order
    prev,       \* the outcome of the previous invocation of the command line
    files,      \* the other files of the project directory
    workspace,  \* init: the parent workspace discovered
    members,    \* tool.uv.workspace.members of the parent workspace on disk
    store,      \* GIT_STORE: the credentials kept per repository URL
    environments,  \* InstalledTools: the environment of each tool
    receipts,      \* InstalledTools: the receipt of each tool
    executables,   \* the files of the executable directory
    tool,          \* tool install: the local variables of `install`
    installed      \* the tools and executables as the invocation found them

resolverVars == <<units, task, slot, inFlight, index, builds, order>>
editVars == <<reqs, i, loaded, pyproject, content>>
lockVars == <<lock, syncArgs>>
vars ==
    <<disk, runs, cmd, args, pc, status, err, units, task, slot, inFlight,
      index, builds, order, reqs, i, loaded, pyproject, content, edits, lock,
      syncArgs,
      trace, prev, files, workspace, members, store, environments, receipts,
      executables, tool, installed>>
initVars == <<files, workspace, members, store>>
installVars == <<environments, receipts, executables>>
toolVars == <<installVars, tool, installed>>
projectVars ==
    <<disk, resolverVars, editVars, edits, lockVars, prev, initVars>>

\* DependencyType
Production == [type |-> "Production", group |-> ""]
Dev == [type |-> "Dev", group |-> ""]
Optional(g) == [type |-> "Optional", group |-> g]
DependencyTypes == {Production, Dev} \cup {Optional(g) : g \in Groups}

\* The command lines of `uv add`: every combination of --rev, --tag and
\* --branch for a project, --no-editable, --script and --raw-sources with and
\* without --branch, and every table and --extra list with --branch.
AddArgs ==
    [requirements : Batches,
     editable : {None},
     script : {FALSE},
     dependency_type : {Production},
     raw_sources : {FALSE},
     rev : {"", "r1"},
     tag : {"", "t1"},
     branch : {"", "main"},
     extras : {<<>>}]
    \cup
    [requirements : Batches,
     editable : {Some(FALSE)},
     script : {FALSE},
     dependency_type : {Production},
     raw_sources : {FALSE},
     rev : {""},
     tag : {""},
     branch : {""},
     extras : {<<>>}]
    \cup
    [requirements : Batches,
     editable : {None},
     script : BOOLEAN,
     dependency_type : {Production},
     raw_sources : BOOLEAN,
     rev : {""},
     tag : {""},
     branch : {"", "main"},
     extras : {<<>>}]
    \cup
    [requirements : Batches,
     editable : {None},
     script : {FALSE},
     dependency_type : DependencyTypes,
     raw_sources : {FALSE},
     rev : {""},
     tag : {""},
     branch : {"main"},
     extras : {<<>>, <<2, 1>>}]

\* The texts the project's pyproject.toml may hold before the first run.
InitialDisks ==
    {NoFile, Malformed, EmptyText,
     UserLayout(Text(<<Pep508(ReqA)>>, <<>>, NoOptional, NoSources))}

\* TomlVariant::Script(contents): the metadata block of the script.
ScriptToml == EmptyText

\* The error a command returns: its kind, what it is about, and the flags its
\* message names.
Failure(kind, about, flags) == [kind |-> kind, about |-> about, flags |-> flags]
NoError == Failure("", "", {})

\* The repository URLs the store may hold credentials for, and the store of
\* a process that has cached none.
RepositoryUrls == {"https://example.com/b.git"}
NoCredentials == [u \in RepositoryUrls |-> None]

\* The per-invocation state before a command starts.
Fresh ==
    /\ status = "running"
    /\ err = NoError
    /\ units = <<>>
    /\ task = <<>>
    /\ slot = <<>>
    /\ inFlight = {}
    /\ index = <<>>
    /\ builds = <<>>
    /\ order = <<>>
    /\ reqs = <<>>
    /\ i = 1
    /\ loaded = NoFile
    /\ pyproject = EmptyDoc
    /\ content = NoFile
    /\ edits = <<>>
    /\ lock = None
    /\ syncArgs = None
    /\ trace = <<>>

Init ==
    /\ disk \in InitialDisks
    /\ runs = 0
    /\ cmd = "none"
    /\ args = <<>>
    /\ pc = "idle"
    /\ prev = None
    /\ files = {}
    /\ workspace = None
    /\ members = <<>>
    /\ store = NoCredentials
    /\ environments = NothingInstalled.environments
    /\ receipts = NothingInstalled.receipts
    /\ executables = NothingInstalled.executables
    /\ tool = NoLocals
    /\ installed = NothingInstalled
    /\ Fresh

\* ---------------------------------------------------------------- resolvers
\* NamedRequirementsResolver and SourceTreeResolver: one task per unit of the
\* batch, run concurrently; a unit that needs distribution metadata asks for
\* it by fingerprint.

\* The fingerprint of a source locator: its kind, URL / path and revision.
Fingerprint(u) == <<u.kind, u.loc, u.pinned>>

\* Whether resolving the unit takes a metadata fetch / build.
NeedsMetadata(u) ==
    \/ ~u.named
    \/ u.kind \in {"path", "url", "tree"}
    \/ (u.kind = "git" /\ ~u.pinned)

\* What the metadata of a unit yields: its name (and, for a source tree, its
\* declared requirements).
Metadata(u) == [u EXCEPT !.named = TRUE]

Resolving == pc \in {"add_resolve", "init_resolve"}

\* The resolver is constructed over `batch`, with a new InFlight and index.
StartResolver(batch) ==
    /\ units' = batch
    /\ task' = [k \in 1..Len(batch) |-> "pending"]
    /\ slot' = [k \in 1..Len(batch) |-> None]
    /\ inFlight' = {}
    /\ index' = [fp \in {Fingerprint(batch[k]) : k \in 1..Len(batch)} |-> None]
    /\ builds' = [fp \in {Fingerprint(batch[k]) : k \in 1..Len(batch)} |-> 0]
    /\ order' = <<>>

\* A named requirement with a plain specifier passes through unchanged.
ResolveNamed(k) ==
    /\ Resolving
    /\ k \in 1..Len(units)
    /\ task[k] = "pending"
    /\ ~NeedsMetadata(units[k])
    /\ task' = [task EXCEPT ![k] = "done"]
    /\ slot' = [slot EXCEPT ![k] = Some(Ok(units[k]))]
    /\ order' = Append(order, k)
    /\ UNCHANGED <<disk, runs, cmd, args, pc, status, err, units, inFlight,
                   index, builds, editVars, lockVars, trace, prev, initVars>>
    /\ UNCHANGED <<edits, toolVars>>

\* RequestMetadata with check-then-insert instead of one atomic step: a task
\* that saw no completed result starts a build even when one is in flight.
RequestMetadataCheckThenInsert(k) ==
    /\ Resolving
    /\ k \in 1..Len(units)
    /\ task[k] = "pending"
    /\ NeedsMetadata(units[k])
    /\ LET fp == Fingerprint(units[k]) IN
        IF IsSome(index[fp]) THEN
            /\ task' = [task EXCEPT ![k] = "done"]
            /\ slot' = [slot EXCEPT ![k] = index[fp]]
            /\ order' = Append(order, k)
            /\ UNCHANGED <<inFlight, builds>>
        ELSE
            /\ task' = [task EXCEPT ![k] = "building"]
            /\ inFlight' = inFlight \cup {fp}
            /\ builds' = [builds EXCEPT ![fp] = @ + 1]
            /\ UNCHANGED <<slot, order>>
    /\ UNCHANGED <<disk, runs, cmd, args, pc, status, err, units, index,
                   editVars, lockVars, trace, prev, initVars>>
    /\ UNCHANGED <<edits, toolVars>>

\* Task k asks for the metadata of its unit: it reads a completed result from
\* the index, or waits for the build in flight, or (one atomic
\* insert-if-absent on InFlight) starts the build.
RequestMetadata(k) ==
    /\ Resolving
    /\ k \in 1..Len(units)
    /\ task[k] = "pending"
    /\ NeedsMetadata(units[k])
    /\ LET fp == Fingerprint(units[k]) IN
        IF IsSome(index[fp]) THEN
            /\ task' = [task EXCEPT ![k] = "done"]
            /\ slot' = [slot EXCEPT ![k] = index[fp]]
            /\ order' = Append(order, k)
            /\ UNCHANGED <<inFlight, builds>>
        ELSE IF fp \in inFlight THEN
            /\ task' = [task EXCEPT ![k] = "waiting"]
            /\ UNCHANGED <<slot, inFlight, builds, order>>
        ELSE
            /\ task' = [task EXCEPT ![k] = "building"]
            /\ inFlight' = inFlight \cup {fp}
            /\ builds' = [builds EXCEPT ![fp] = @ + 1]
            /\ UNCHANGED <<slot, order>>
    /\ UNCHANGED <<disk, runs, cmd, args, pc, status, err, units, index,
                   editVars, lockVars, trace, prev, initVars>>
    /\ UNCHANGED <<edits, toolVars>>

\* BuildComplete publishing only a successful result: a failure leaves no
\* entry behind.
BuildCompleteForgetsFailure(k) ==
    /\ Resolving
    /\ k \in 1..Len(units)
    /\ task[k] = "building"
    /\ \E ok \in BOOLEAN :
        LET fp == Fingerprint(units[k])
            result == IF ok THEN Ok(Metadata(units[k]))
                      ELSE Err("Build", units[k].loc)
        IN  /\ index' = IF ok THEN [index EXCEPT ![fp] = Some(result)]
                        ELSE index
            /\ inFlight' = inFlight \ {fp}
            /\ slot' = [slot EXCEPT ![k] = Some(result)]
            /\ task' = [task EXCEPT ![k] = "done"]
            /\ order' = Append(order, k)
    /\ UNCHANGED <<disk, runs, cmd, args, pc, status, err, units, builds,
                   editVars, lockVars, trace, prev, initVars>>
    /\ UNCHANGED <<edits, toolVars>>

\* The build task k started completes, with the metadata or with a failure:
\* the result is published to the index and the InFlight entry removed.
BuildComplete(k) ==
    /\ Resolving
    /\ k \in 1..Len(units)
    /\ task[k] = "building"
    /\ \E ok \in BOOLEAN :
        LET fp == Fingerprint(units[k])
            result == IF ok THEN Ok(Metadata(units[k]))
                      ELSE Err("Build", units[k].loc)
        IN  /\ index' = [index EXCEPT ![fp] = Some(result)]
            /\ inFlight' = inFlight \ {fp}
            /\ slot' = [slot EXCEPT ![k] = Some(result)]
            /\ task' = [task EXCEPT ![k] = "done"]
            /\ order' = Append(order, k)
    /\ UNCHANGED <<disk, runs, cmd, args, pc, status, err, units, builds,
                   editVars, lockVars, trace, prev, initVars>>
    /\ UNCHANGED <<edits, toolVars>>

\* A waiter observes the result of the build it waited for.
WaiterResumes(k) ==
    /\ Resolving
    /\ k \in 1..Len(units)
    /\ task[k] = "waiting"
    /\ IsSome(index[Fingerprint(units[k])])
    /\ slot' = [slot EXCEPT ![k] = index[Fingerprint(units[k])]]
    /\ task' = [task EXCEPT ![k] = "resumed"]
    /\ order' = Append(order, k)
    /\ UNCHANGED <<disk, runs, cmd, args, pc, status, err, units, inFlight,
                   index, builds, editVars, lockVars, trace, prev, initVars>>
    /\ UNCHANGED <<edits, toolVars>>

\* ResolverResult with the results appended on completion instead of
\* collected into slots.
ResolverResultByCompletion ==
    IF \E k \in 1..Len(units) : IsSome(slot[k]) /\ ~Unwrap(slot[k]).ok
        THEN Some(Unwrap(slot[CHOOSE k \in 1..Len(units) :
                                IsSome(slot[k]) /\ ~Unwrap(slot[k]).ok]))
    ELSE IF \A k \in 1..Len(units) : IsSome(slot[k])
        THEN Some(Ok([k \in 1..Len(units) |-> Unwrap(slot[order[k]]).value]))
    ELSE None

\* What resolve() returns: None while it is running, the first error
\* encountered, or the results in slot order.
ResolverResult ==
    IF \E k \in 1..Len(units) : IsSome(slot[k]) /\ ~Unwrap(slot[k]).ok
        THEN Some(Unwrap(slot[CHOOSE k \in 1..Len(units) :
                                IsSome(slot[k]) /\ ~Unwrap(slot[k]).ok]))
    ELSE IF \A k \in 1..Len(units) : IsSome(slot[k])
        THEN Some(Ok([k \in 1..Len(units) |-> Unwrap(slot[k]).value]))
    ELSE None

\* ------------------------------------------------------------ ending a run
Fail(e) ==
    /\ pc' = "failed"
    /\ status' = "Error"
    /\ err' = e

Succeed ==
    /\ pc' = "done"
    /\ status' = "Success"
    /\ err' = NoError

\* ---------------------------------------------------------------- `uv add`
\* Locate the script or the project, and its environment.
AddDiscover ==
    /\ pc = "add_discover"
    /\ \E found \in BOOLEAN :
        IF found /\ (args.script \/ disk.exists)
            THEN /\ pc' = "add_setup"
                 /\ loaded' = IF args.script THEN ScriptToml ELSE disk
                 /\ UNCHANGED <<status, err>>
            ELSE /\ Fail(Failure("Discover", "", {}))
                 /\ UNCHANGED loaded
    /\ UNCHANGED <<disk, runs, cmd, args, resolverVars, reqs, i, pyproject,
                   content, lockVars, trace, prev, initVars>>
    /\ UNCHANGED <<edits, toolVars>>

\* Read the requirements, build the client and the flat index, create the
\* shared state, and construct the resolver.
AddSetup ==
    /\ pc = "add_setup"
    /\ \E ok \in BOOLEAN :
        IF ok
            THEN /\ pc' = "add_resolve"
                 /\ StartResolver(args.requirements)
                 /\ UNCHANGED <<status, err>>
            ELSE /\ Fail(Failure("Setup", "", {}))
                 /\ UNCHANGED resolverVars
    /\ UNCHANGED <<disk, runs, cmd, args, editVars, lockVars, trace, prev,
                   initVars>>
    /\ UNCHANGED <<edits, toolVars>>

\* AddResolve going on with the requirements that did resolve.
AddResolveKeepsPartial ==
    /\ pc = "add_resolve"
    /\ \A k \in 1..Len(units) : IsSome(slot[k])
    /\ reqs' = [k \in 1..Len(units) |->
                   IF Unwrap(slot[k]).ok THEN Unwrap(slot[k]).value
                   ELSE units[k]]
    /\ pc' = "add_parse"
    /\ trace' = Append(trace, "resolved")
    /\ UNCHANGED <<status, err>>
    /\ UNCHANGED <<disk, runs, cmd, args, resolverVars, i, loaded, pyproject,
                   content, lockVars, prev, initVars>>
    /\ UNCHANGED <<edits, toolVars>>

\* NamedRequirementsResolver::resolve().await?
AddResolve ==
    /\ pc = "add_resolve"
    /\ IsSome(ResolverResult)
    /\ LET res == Unwrap(ResolverResult) IN
        IF res.ok
            THEN /\ reqs' = res.value
                 /\ pc' = "add_parse"
                 /\ trace' = Append(trace, "resolved")
                 /\ UNCHANGED <<status, err>>
            ELSE /\ Fail(Failure("Resolve", res.detail, {}))
                 /\ UNCHANGED <<reqs, trace>>
    /\ UNCHANGED <<disk, runs, cmd, args, resolverVars, i, loaded, pyproject,
                   content, lockVars, prev, initVars>>
    /\ UNCHANGED <<edits, toolVars>>

\* AddParse taking text that does not parse for an empty manifest.
AddParseLenient ==
    /\ pc = "add_parse"
    /\ pyproject' = IF FromToml(loaded).ok THEN FromToml(loaded).value
                    ELSE EmptyDoc
    /\ i' = 1
    /\ pc' = "add_edit"
    /\ UNCHANGED <<status, err>>
    /\ UNCHANGED <<disk, runs, cmd, args, resolverVars, reqs, loaded, content,
                   lockVars, trace, prev, initVars>>
    /\ UNCHANGED <<edits, toolVars>>

\* PyProjectTomlMut::from_toml(&toml)?
AddParse ==
    /\ pc = "add_parse"
    /\ IF FromToml(loaded).ok
        THEN /\ pyproject' = FromToml(loaded).value
             /\ i' = 1
             /\ pc' = "add_edit"
             /\ UNCHANGED <<status, err>>
        ELSE /\ Fail(Failure("Toml", "", {}))
             /\ UNCHANGED <<pyproject, i>>
    /\ UNCHANGED <<disk, runs, cmd, args, resolverVars, reqs, loaded, content,
                   lockVars, trace, prev, initVars>>
    /\ UNCHANGED <<edits, toolVars>>

\* Every dependency type selecting the dev table.
AddToTableAlwaysDev(doc, dependency_type, entry, source) ==
    AddDevDependency(doc, entry, source)

\* Every edit made to project.dependencies as well.
AddToTableAlsoProduction(doc, dependency_type, entry, source) ==
    IF dependency_type.type = "Production"
        THEN AddDependency(doc, entry, source)
    ELSE IF dependency_type.type = "Dev"
        THEN AddDevDependency(AddDependency(doc, entry, source), entry, source)
    ELSE AddOptionalDependency(AddDependency(doc, entry, source), entry,
                               dependency_type.group, source)

\* The table the dependency type selects.
AddToTable(doc, dependency_type, entry, source) ==
    IF dependency_type.type = "Production"
        THEN AddDependency(doc, entry, source)
    ELSE IF dependency_type.type = "Dev"
        THEN AddDevDependency(doc, entry, source)
    ELSE AddOptionalDependency(doc, entry, dependency_type.group, source)

\* The flags the unresolved-reference message names.
RemediationFlags == {"--tag", "--branch", "--rev", "--raw-sources"}

\* AddEdit recording a Git source with no reference when the classifier
\* reports an unresolved reference.
AddEditDefaultsBranch ==
    /\ pc = "add_edit"
    /\ i <= Len(reqs)
    /\ LET req == MergeExtras(reqs[i], args.extras)
           member == req.name \in WorkspacePackages
           result == SourceFromRequirement(req, member, args.editable,
                                           args.rev, args.tag, args.branch)
       IN  IF args.script \/ args.raw_sources THEN
               /\ pyproject' = AddToTable(pyproject, args.dependency_type,
                                          Pep508(req), None)
               /\ i' = i + 1
               /\ trace' = Append(trace, "edited")
               /\ UNCHANGED <<pc, status, err>>
           ELSE IF result.ok \/ result.kind = "UnresolvedReference" THEN
               /\ pyproject' =
                    AddToTable(pyproject, args.dependency_type,
                               ClearUrl(Pep508(req)),
                               IF result.ok THEN result.value
                               ELSE Some(GitSource(req.loc, "", "", "")))
               /\ i' = i + 1
               /\ trace' = trace \o <<"classified", "edited">>
               /\ UNCHANGED <<pc, status, err>>
           ELSE
               /\ Fail(Failure("Source", req.name, {}))
               /\ UNCHANGED <<pyproject, i, trace>>
    /\ UNCHANGED <<disk, runs, cmd, args, resolverVars, reqs, loaded, content,
                   lockVars, prev, initVars>>
    /\ UNCHANGED <<edits, toolVars>>

\* AddEdit saving pyproject.toml after every requirement.
AddEditSavesEach ==
    /\ pc = "add_edit"
    /\ i <= Len(reqs)
    /\ LET req == MergeExtras(reqs[i], args.extras)
           member == req.name \in WorkspacePackages
           result == SourceFromRequirement(req, member, args.editable,
                                           args.rev, args.tag, args.branch)
       IN  IF args.script \/ args.raw_sources THEN
               /\ pyproject' = AddToTable(pyproject, args.dependency_type,
                                          Pep508(req), None)
               /\ i' = i + 1
               /\ trace' = Append(trace, "edited")
               /\ UNCHANGED <<pc, status, err, disk>>
           ELSE IF result.ok THEN
               /\ pyproject' = AddToTable(pyproject, args.dependency_type,
                                          ClearUrl(Pep508(req)), result.value)
               /\ disk' = Render(pyproject')
               /\ i' = i + 1
               /\ trace' = trace \o <<"classified", "edited">>
               /\ UNCHANGED <<pc, status, err>>
           ELSE
               /\ Fail(IF result.kind = "UnresolvedReference"
                           THEN Failure("CannotResolveGitReference", req.name,
                                        RemediationFlags)
                           ELSE Failure("Source", req.name, {}))
               /\ UNCHANGED <<pyproject, i, trace, disk>>
    /\ UNCHANGED <<runs, cmd, args, resolverVars, reqs, loaded, content,
                   lockVars, prev, initVars>>
    /\ UNCHANGED <<edits, toolVars>>

\* One iteration of `for mut req in requirements`.
AddEdit ==
    /\ pc = "add_edit"
    /\ i <= Len(reqs)
    /\ LET req == MergeExtras(reqs[i], args.extras)
           member == req.name \in WorkspacePackages
           result == SourceFromRequirement(req, member, args.editable,
                                           args.rev, args.tag, args.branch)
       IN  IF args.script \/ args.raw_sources THEN
               /\ pyproject' = AddToTable(pyproject, args.dependency_type,
                                          Pep508(req), None)
               /\ i' = i + 1
               /\ trace' = Append(trace, "edited")
               /\ UNCHANGED <<pc, status, err>>
           ELSE IF result.ok THEN
               /\ pyproject' = AddToTable(pyproject, args.dependency_type,
                                          ClearUrl(Pep508(req)), result.value)
               /\ i' = i + 1
               /\ trace' = trace \o <<"classified", "edited">>
               /\ UNCHANGED <<pc, status, err>>
           ELSE
               /\ Fail(IF result.kind = "UnresolvedReference"
                           THEN Failure("CannotResolveGitReference", req.name,
                                        RemediationFlags)
                           ELSE Failure("Source", req.name, {}))
               /\ UNCHANGED <<pyproject, i, trace>>
    /\ UNCHANGED <<disk, runs, cmd, args, resolverVars, reqs, loaded, content,
                   lockVars, prev, initVars>>
    /\ UNCHANGED <<edits, toolVars>>

\* AddPersist leaving the write of pyproject.toml out.
AddPersistSkipsWrite ==
    /\ pc = "add_edit"
    /\ i > Len(reqs)
    /\ content' = Render(pyproject)
    /\ IF args.script
        THEN /\ Succeed
             /\ UNCHANGED <<disk, trace>>
        ELSE /\ pc' = "add_lock"
             /\ UNCHANGED <<disk, trace, status, err>>
    /\ UNCHANGED <<runs, cmd, args, resolverVars, reqs, i, loaded, pyproject,
                   lockVars, prev, initVars>>
    /\ UNCHANGED <<edits, toolVars>>

\* After the loop: the script variant only prints the manifest; the project
\* variant writes pyproject.toml.
AddPersist ==
    /\ pc = "add_edit"
    /\ i > Len(reqs)
    /\ content' = Render(pyproject)
    /\ IF args.script
        THEN /\ Succeed
             /\ UNCHANGED <<disk, trace>>
        ELSE \E written \in BOOLEAN :
            IF written
                THEN /\ disk' = Render(pyproject)
                     /\ trace' = Append(trace, "write")
                     /\ pc' = "add_lock"
                     /\ UNCHANGED <<status, err>>
                ELSE /\ Fail(Failure("Io", "", {}))
                     /\ UNCHANGED <<disk, trace>>
    /\ UNCHANGED <<runs, cmd, args, resolverVars, reqs, i, loaded, pyproject,
                   lockVars, prev, initVars>>
    /\ UNCHANGED <<edits, toolVars>>

\* AddLock restoring the loaded pyproject.toml when do_lock fails.
AddLockRevertsOnFailure ==
    /\ pc = "add_lock"
    /\ \E ok \in BOOLEAN :
        IF ok
            THEN /\ lock' = Some([manifest |-> disk])
                 /\ trace' = trace \o <<"lock", "lock_ok">>
                 /\ pc' = "add_sync"
                 /\ UNCHANGED <<status, err, disk>>
            ELSE /\ Fail(Failure("Lock", "", {}))
                 /\ trace' = Append(trace, "lock")
                 /\ disk' = loaded
                 /\ UNCHANGED lock
    /\ UNCHANGED <<runs, cmd, args, resolverVars, editVars, syncArgs, prev,
                   initVars>>
    /\ UNCHANGED <<edits, toolVars>>

\* project::lock::do_lock(...).await?
AddLock ==
    /\ pc = "add_lock"
    /\ \E ok \in BOOLEAN :
        IF ok
            THEN /\ lock' = Some([manifest |-> disk])
                 /\ trace' = trace \o <<"lock", "lock_ok">>
                 /\ pc' = "add_sync"
                 /\ UNCHANGED <<status, err>>
            ELSE /\ Fail(Failure("Lock", "", {}))
                 /\ trace' = Append(trace, "lock")
                 /\ UNCHANGED lock
    /\ UNCHANGED <<disk, runs, cmd, args, resolverVars, editVars, syncArgs,
                   prev, initVars>>
    /\ UNCHANGED <<edits, toolVars>>

\* A sync of what the add named: its extras, and dev for a dev dependency.
AddSyncWhatWasAdded ==
    /\ pc = "add_sync"
    /\ syncArgs' = Some([lock |-> Unwrap(lock),
                         extras |-> IF args.extras = <<>> THEN "None"
                                    ELSE "Some",
                         dev |-> (args.dependency_type = Dev),
                         modifications |-> "Sufficient"])
    /\ trace' = Append(trace, "sync")
    /\ \E ok \in BOOLEAN :
        IF ok THEN Succeed ELSE Fail(Failure("Sync", "", {}))
    /\ UNCHANGED <<disk, runs, cmd, args, resolverVars, editVars, lock, prev,
                   initVars>>
    /\ UNCHANGED <<edits, toolVars>>

\* project::sync::do_sync(...).await?; Ok(ExitStatus::Success)
AddSync ==
    /\ pc = "add_sync"
    /\ syncArgs' = Some([lock |-> Unwrap(lock), extras |-> "All", dev |-> TRUE,
                         modifications |-> "Sufficient"])
    /\ trace' = Append(trace, "sync")
    /\ \E ok \in BOOLEAN :
        IF ok THEN Succeed ELSE Fail(Failure("Sync", "", {}))
    /\ UNCHANGED <<disk, runs, cmd, args, resolverVars, editVars, lock, prev,
                   initVars>>
    /\ UNCHANGED <<edits, toolVars>>

\* --------------------------------------------------------------- `uv init`
\* The path of the new project, relative to the parent workspace.
ProjectPath == "proj"

\* The pyproject.toml the project kinds generate: `dependencies = []`.
PyprojectProject == EmptyText

\* The command lines of `uv init`.
InitArgs ==
    [no_sync : BOOLEAN,
     raw_sources : BOOLEAN,
     from_project : {None} \cup {Some(t) : t \in Trees},
     no_workspace : BOOLEAN,
     project_kind : {"Application", "Library"},
     package : BOOLEAN,
     no_readme : BOOLEAN,
     no_pin_python : BOOLEAN]

\* InitCheck without the check for an existing pyproject.toml.
InitCheckSkipsExisting ==
    /\ pc = "init_check"
    /\ \E named \in BOOLEAN :
        IF named
            THEN /\ pc' = "init_discover"
                 /\ UNCHANGED <<status, err>>
            ELSE Fail(Failure("Name", "", {}))
    /\ UNCHANGED <<disk, runs, cmd, args, resolverVars, editVars, lockVars,
                   trace, prev, initVars>>
    /\ UNCHANGED <<edits, toolVars>>

\* init refusing the directory only after it has written the manifest.
InitCheckOverwrites ==
    /\ pc = "init_check"
    /\ IF disk.exists
        THEN /\ Fail(Failure("AlreadyInitialized", ProjectPath, {}))
             /\ disk' = PyprojectProject
        ELSE /\ \E named \in BOOLEAN :
                IF named
                    THEN /\ pc' = "init_discover"
                         /\ UNCHANGED <<status, err>>
                    ELSE Fail(Failure("Name", "", {}))
             /\ UNCHANGED disk
    /\ UNCHANGED <<runs, cmd, args, resolverVars, editVars, lockVars,
                   trace, prev, initVars>>
    /\ UNCHANGED <<edits, toolVars>>

\* init: refuse a directory that already holds a pyproject.toml, and find
\* the project name.
InitCheck ==
    /\ pc = "init_check"
    /\ IF disk.exists
        THEN Fail(Failure("AlreadyInitialized", ProjectPath, {}))
        ELSE \E named \in BOOLEAN :
            IF named
                THEN /\ pc' = "init_discover"
                     /\ UNCHANGED <<status, err>>
                ELSE Fail(Failure("Name", "", {}))
    /\ UNCHANGED <<disk, runs, cmd, args, resolverVars, editVars, lockVars,
                   trace, prev, initVars>>
    /\ UNCHANGED <<edits, toolVars>>

\* Workspace discovery that does not look at --no-workspace.
InitDiscoverWorkspaceAlways ==
    /\ pc = "init_discover"
    /\ \E outcome \in {"found", "missing", "error"},
          excludes \in BOOLEAN, includes \in BOOLEAN :
        IF outcome = "found" THEN
            /\ workspace' = Some([excludes |-> excludes, includes |-> includes])
            /\ pc' = "init_python"
            /\ UNCHANGED <<status, err>>
        ELSE IF outcome = "missing" THEN
            /\ workspace' = None
            /\ pc' = "init_python"
            /\ UNCHANGED <<status, err>>
        ELSE
            /\ Fail(Failure("DiscoverWorkspace", "", {"--no-workspace"}))
            /\ UNCHANGED workspace
    /\ UNCHANGED <<disk, runs, cmd, args, resolverVars, editVars, lockVars,
                   trace, prev, files, members, store>>
    /\ UNCHANGED <<edits, toolVars>>

\* init_project: discover the parent workspace, if it exists.
InitDiscoverWorkspace ==
    /\ pc = "init_discover"
    /\ \E outcome \in {"found", "missing", "error"},
          excludes \in BOOLEAN, includes \in BOOLEAN :
        IF outcome = "found" THEN
            /\ workspace' =
                 IF args.no_workspace THEN None
                 ELSE Some([excludes |-> excludes, includes |-> includes])
            /\ pc' = "init_python"
            /\ UNCHANGED <<status, err>>
        ELSE IF outcome = "missing" \/ args.no_workspace THEN
            /\ workspace' = None
            /\ pc' = "init_python"
            /\ UNCHANGED <<status, err>>
        ELSE
            /\ Fail(Failure("DiscoverWorkspace", "", {"--no-workspace"}))
            /\ UNCHANGED workspace
    /\ UNCHANGED <<disk, runs, cmd, args, resolverVars, editVars, lockVars,
                   trace, prev, files, members, store>>
    /\ UNCHANGED <<edits, toolVars>>

\* init_project: derive requires-python and the Python pin, which may take
\* finding or downloading an interpreter.
InitPython ==
    /\ pc = "init_python"
    /\ \E ok \in BOOLEAN :
        IF ok
            THEN /\ pc' = "init_kind"
                 /\ UNCHANGED <<status, err>>
            ELSE Fail(Failure("Python", "", {}))
    /\ UNCHANGED <<disk, runs, cmd, args, resolverVars, editVars, lockVars,
                   trace, prev, initVars>>
    /\ UNCHANGED <<edits, toolVars>>

\* The source file the project kind creates.
SourceFile ==
    IF args.project_kind = "Library" \/ args.package
        THEN "src/__init__.py" ELSE "hello.py"

\* InitProjectKind::init: create the project files.  It may fail before any
\* file is written, or at the last write (.python-version).
InitKind ==
    /\ pc = "init_kind"
    /\ IF args.project_kind = "Library" /\ ~args.package
        THEN /\ Fail(Failure("LibraryNotPackaged", "", {}))
             /\ UNCHANGED <<disk, files>>
        ELSE \E outcome \in {"ok", "early", "late"} :
            IF outcome = "early" THEN
                /\ Fail(Failure("Io", "", {}))
                /\ UNCHANGED <<disk, files>>
            ELSE
                /\ disk' = PyprojectProject
                /\ IF outcome = "ok" THEN
                       /\ files' = files \cup {SourceFile} \cup
                            (IF args.no_pin_python THEN {}
                             ELSE {".python-version"})
                       /\ pc' = "init_member"
                       /\ UNCHANGED <<status, err>>
                   ELSE
                       /\ files' = files \cup {SourceFile}
                       /\ Fail(Failure("Io", "", {}))
    /\ UNCHANGED <<runs, cmd, args, resolverVars, editVars, lockVars, trace,
                   prev, workspace, members, store>>
    /\ UNCHANGED <<edits, toolVars>>

\* Every project created under a workspace is appended to its members.
InitMemberAlways ==
    /\ pc = "init_member"
    /\ IF IsSome(workspace)
        THEN \E written \in BOOLEAN :
            IF written
                THEN /\ members' = Append(members, ProjectPath)
                     /\ pc' = "init_from"
                     /\ UNCHANGED <<status, err>>
                ELSE /\ Fail(Failure("Io", "", {}))
                     /\ UNCHANGED members
        ELSE /\ pc' = "init_from"
             /\ UNCHANGED <<members, status, err>>
    /\ UNCHANGED <<disk, runs, cmd, args, resolverVars, editVars, lockVars,
                   trace, prev, files, workspace, store>>
    /\ UNCHANGED <<edits, toolVars>>

\* init_project: add the project to the members of the parent workspace.
InitMember ==
    /\ pc = "init_member"
    /\ IF IsSome(workspace)
            /\ ~Unwrap(workspace).excludes
            /\ ~Unwrap(workspace).includes
        THEN \E written \in BOOLEAN :
            IF written
                THEN /\ members' = Append(members, ProjectPath)
                     /\ pc' = "init_from"
                     /\ UNCHANGED <<status, err>>
                ELSE /\ Fail(Failure("Io", "", {}))
                     /\ UNCHANGED members
        ELSE /\ pc' = "init_from"
             /\ UNCHANGED <<members, status, err>>
    /\ UNCHANGED <<disk, runs, cmd, args, resolverVars, editVars, lockVars,
                   trace, prev, files, workspace, store>>
    /\ UNCHANGED <<edits, toolVars>>

\* init_project, `if let Some(from_project)`: discover the new project and
\* its environment, build the client and the shared state, and construct the
\* resolver; without --from-project, init_project is done.
InitFrom ==
    /\ pc = "init_from"
    /\ IF IsSome(args.from_project)
        THEN \E ok \in BOOLEAN :
            IF ok
                THEN /\ loaded' = disk
                     /\ StartResolver(<<Unwrap(args.from_project)>>)
                     /\ pc' = "init_resolve"
                     /\ UNCHANGED <<status, err>>
                ELSE /\ Fail(Failure("Setup", "", {}))
                     /\ UNCHANGED <<loaded, resolverVars>>
        ELSE /\ pc' = "init_readme"
             /\ UNCHANGED <<loaded, resolverVars, status, err>>
    /\ UNCHANGED <<disk, runs, cmd, args, reqs, i, pyproject, content,
                   lockVars, trace, prev, initVars>>
    /\ UNCHANGED <<edits, toolVars>>

\* SourceTreeResolver::resolve().await?; resolutions.first()
InitResolve ==
    /\ pc = "init_resolve"
    /\ IsSome(ResolverResult)
    /\ LET res == Unwrap(ResolverResult) IN
        IF ~res.ok THEN
            /\ Fail(Failure("Resolve", res.detail, {}))
            /\ UNCHANGED <<reqs, trace>>
        ELSE IF Len(res.value) = 0 THEN
            /\ pc' = "init_readme"
            /\ UNCHANGED <<reqs, trace, status, err>>
        ELSE
            /\ reqs' = res.value[1].requirements
            /\ trace' = Append(trace, "resolved")
            /\ pc' = "init_parse"
            /\ UNCHANGED <<status, err>>
    /\ UNCHANGED <<disk, runs, cmd, args, resolverVars, i, loaded, pyproject,
                   content, lockVars, prev, initVars>>
    /\ UNCHANGED <<edits, toolVars>>

\* PyProjectTomlMut::from_toml(&project.pyproject_toml().raw, ..)?
InitParse ==
    /\ pc = "init_parse"
    /\ IF FromToml(loaded).ok
        THEN /\ pyproject' = FromToml(loaded).value
             /\ i' = 1
             /\ pc' = "init_edit"
             /\ UNCHANGED <<status, err>>
        ELSE /\ Fail(Failure("Toml", "", {}))
             /\ UNCHANGED <<pyproject, i>>
    /\ UNCHANGED <<disk, runs, cmd, args, resolverVars, reqs, loaded, content,
                   lockVars, trace, prev, initVars>>
    /\ UNCHANGED <<edits, toolVars>>

RECURSIVE Flatten(_)
\* Iterator::flatten over the clauses of a marker.
Flatten(dnf) == IF dnf = <<>> THEN <<>> ELSE Head(dnf) \o Flatten(Tail(dnf))

RECURSIVE FilterExtra(_)
\* The filter_map of the import loop: the name of every MarkerExpression::Extra.
FilterExtra(atoms) ==
    IF atoms = <<>> THEN <<>>
    ELSE IF Head(atoms).key = "extra"
        THEN <<Head(atoms).value>> \o FilterExtra(Tail(atoms))
    ELSE FilterExtra(Tail(atoms))

\* The import loop finding no extra in any marker.
MarkerExtrasNone(marker) == <<>>

\* requirement.marker.to_dnf().iter().flatten().filter_map(..).collect()
MarkerExtras(marker) == FilterExtra(Flatten(marker))

InSeq(x, s) == \E k \in 1..Len(s) : s[k] = x

RECURSIVE DropExtraAtoms(_, _)
DropExtraAtoms(clause, extras) ==
    IF clause = <<>> THEN <<>>
    ELSE IF Head(clause).key = "extra" /\ InSeq(Head(clause).value, extras)
        THEN DropExtraAtoms(Tail(clause), extras)
    ELSE <<Head(clause)>> \o DropExtraAtoms(Tail(clause), extras)

\* MarkerTree::simplify_extras: the marker without the atoms on `extras`.
SimplifyExtras(marker, extras) ==
    [k \in 1..Len(marker) |-> DropExtraAtoms(marker[k], extras)]

\* resolve_requirement (add.rs): classify the source, and drop the URL of the
\* PEP 508 requirement.
ResolveRequirement(r, member, editable, rev, tag, branch) ==
    LET result == SourceFromRequirement(r, member, editable, rev, tag, branch)
    IN  IF result.ok
            THEN Ok([requirement |-> ClearUrl(Pep508(r)),
                     source |-> result.value])
        ELSE IF result.kind = "UnresolvedReference"
            THEN Err("CannotResolveGitReference", r.name)
        ELSE Err("Source", r.name)

\* ------------------------------------------------------- credential store
\* Credentials::from_url: the userinfo component of the URL, if it has one.
CredentialsFromUrl(source) ==
    IF source.creds = "" THEN None ELSE Some(source.creds)

\* RepositoryUrl::new: the URL without userinfo, query and fragment.
RepositoryUrl(source) == source.git

\* redact_git_credentials
RedactGitCredentials(source) == [source EXCEPT !.creds = ""]

\* GIT_STORE.insert(key, credentials)
StoreInsert(st, key, credentials) == [st EXCEPT ![key] = Some(credentials)]

\* RedactSource without the insert into the store.
RedactSourceOnly(source, st) ==
    IF IsSome(source) /\ Unwrap(source).type = "git"
        THEN [source |-> Some(RedactGitCredentials(Unwrap(source))),
              store |-> st]
        ELSE [source |-> source, store |-> st]

\* `let source = match source { Some(Source::Git { .. }) => .., _ => source }`
\* with the store `st`: the source to record and the store afterwards.
RedactSource(source, st) ==
    IF IsSome(source) /\ Unwrap(source).type = "git"
        THEN LET git == Unwrap(source)
                 credentials == CredentialsFromUrl(git)
             IN  IF IsSome(credentials)
                     THEN [source |-> Some(RedactGitCredentials(git)),
                           store |-> StoreInsert(st, RepositoryUrl(git),
                                                 Unwrap(credentials))]
                     ELSE [source |-> source, store |-> st]
        ELSE [source |-> source, store |-> st]

\* DependencyEdit::new, without the ArrayEdit the manifest returned.
DependencyEdit(dependency_type, requirement, source) ==
    [dependency_type |-> dependency_type, requirement |-> requirement,
     source |-> source]

RECURSIVE AddOptionalDependencies(_, _, _, _)
\* `for extra in extras { toml.add_optional_dependency(..) }`
AddOptionalDependencies(doc, extras, entry, source) ==
    IF extras = <<>> THEN doc
    ELSE AddOptionalDependencies(
             AddOptionalDependency(doc, entry, Head(extras), source),
             Tail(extras), entry, source)

\* One iteration of `for requirement in requirements`.
InitEdit ==
    /\ pc = "init_edit"
    /\ i <= Len(reqs)
    /\ LET extras == MarkerExtras(reqs[i].marker)
           member == reqs[i].name \in WorkspacePackages
           resolved == ResolveRequirement(reqs[i], member, None, "", "", "")
       IN  IF resolved.ok THEN
               LET requirement ==
                       [resolved.value.requirement EXCEPT
                           !.marker = SimplifyExtras(@, extras)]
                   redacted == RedactSource(resolved.value.source, store)
                   source == redacted.source
               IN  /\ store' = redacted.store
                   /\ \E edited \in BOOLEAN :
                       IF edited THEN
                           /\ pyproject' =
                                IF extras = <<>>
                                    THEN AddDependency(pyproject, requirement,
                                                       source)
                                    ELSE AddOptionalDependencies(
                                             pyproject, extras, requirement,
                                             source)
                           /\ edits' = edits \o
                                IF extras = <<>>
                                    THEN <<DependencyEdit(Production,
                                                          requirement, source)>>
                                    ELSE [e \in 1..Len(extras) |->
                                            DependencyEdit(Optional(extras[e]),
                                                           requirement, source)]
                           /\ i' = i + 1
                           /\ trace' = trace \o <<"classified", "edited">>
                           /\ UNCHANGED <<pc, status, err>>
                       ELSE
                           /\ Fail(Failure("Edit", requirement.name, {}))
                           /\ trace' = Append(trace, "classified")
                           /\ UNCHANGED <<pyproject, i, edits>>
           ELSE
               /\ Fail(Failure(resolved.kind, resolved.detail,
                               IF resolved.kind = "CannotResolveGitReference"
                                   THEN RemediationFlags ELSE {}))
               /\ UNCHANGED <<pyproject, i, edits, trace, store>>
    /\ UNCHANGED <<disk, runs, cmd, args, resolverVars, reqs, loaded, content,
                   lockVars, prev, files, workspace, members>>
    /\ UNCHANGED toolVars

\* After the loop: render, and write pyproject.toml if the text changed.
InitPersist ==
    /\ pc = "init_edit"
    /\ i > Len(reqs)
    /\ content' = Render(pyproject)
    /\ IF Render(pyproject) = loaded
        THEN /\ pc' = "init_process"
             /\ UNCHANGED <<disk, trace, status, err>>
        ELSE \E written \in BOOLEAN :
            IF written
                THEN /\ disk' = Render(pyproject)
                     /\ trace' = Append(trace, "write")
                     /\ pc' = "init_process"
                     /\ UNCHANGED <<status, err>>
                ELSE /\ Fail(Failure("Io", "", {}))
                     /\ UNCHANGED <<disk, trace>>
    /\ UNCHANGED <<runs, cmd, args, resolverVars, reqs, i, loaded, pyproject,
                   lockVars, prev, initVars>>
    /\ UNCHANGED <<edits, toolVars>>

\* `modified`, as init_project computes it for process_project_and_sync.
Modified == content # loaded

\* process_project_and_sync: lock, unless the manifest is unchanged or
\* --no-sync was given.
InitLock ==
    /\ pc = "init_process"
    /\ IF ~Modified \/ args.no_sync
        THEN /\ pc' = "init_readme"
             /\ UNCHANGED <<lock, trace, status, err>>
        ELSE \E ok \in BOOLEAN :
            IF ok
                THEN /\ lock' = Some([manifest |-> disk])
                     /\ trace' = trace \o <<"lock", "lock_ok">>
                     /\ pc' = "init_sync"
                     /\ UNCHANGED <<status, err>>
                ELSE /\ Fail(Failure("Lock", "", {}))
                     /\ trace' = Append(trace, "lock")
                     /\ UNCHANGED lock
    /\ UNCHANGED <<disk, runs, cmd, args, resolverVars, editVars, syncArgs,
                   prev, initVars>>
    /\ UNCHANGED <<edits, toolVars>>

\* process_project_and_sync: sync with the lock.
InitSync ==
    /\ pc = "init_sync"
    /\ syncArgs' = Some([lock |-> Unwrap(lock), extras |-> "All",
                         dev |-> FALSE, modifications |-> "Sufficient"])
    /\ trace' = Append(trace, "sync")
    /\ \E ok \in BOOLEAN :
        IF ok
            THEN /\ pc' = "init_readme"
                 /\ UNCHANGED <<status, err>>
            ELSE Fail(Failure("Sync", "", {}))
    /\ UNCHANGED <<disk, runs, cmd, args, resolverVars, editVars, lock, prev,
                   initVars>>
    /\ UNCHANGED <<edits, toolVars>>

\* init: create the README.md if it does not already exist; report.
InitReadme ==
    /\ pc = "init_readme"
    /\ IF args.no_readme \/ "README.md" \in files
        THEN /\ Succeed
             /\ UNCHANGED files
        ELSE \E written \in BOOLEAN :
            IF written
                THEN /\ files' = files \cup {"README.md"}
                     /\ Succeed
                ELSE /\ Fail(Failure("Io", "", {}))
                     /\ UNCHANGED files
    /\ UNCHANGED <<disk, runs, cmd, args, resolverVars, editVars, lockVars,
                   trace, prev, workspace, members, store>>
    /\ UNCHANGED <<edits, toolVars>>

\* -------------------------------------------------------------- invocations
ResetRun ==
    /\ status' = "running"
    /\ err' = NoError
    /\ units' = <<>>
    /\ task' = <<>>
    /\ slot' = <<>>
    /\ inFlight' = {}
    /\ index' = <<>>
    /\ builds' = <<>>
    /\ order' = <<>>
    /\ reqs' = <<>>
    /\ i' = 1
    /\ loaded' = NoFile
    /\ pyproject' = EmptyDoc
    /\ content' = NoFile
    /\ edits' = <<>>
    /\ lock' = None
    /\ syncArgs' = None
    /\ trace' = <<>>
    /\ workspace' = None
    /\ store' = NoCredentials

\* The user runs `uv add`.
StartAdd ==
    /\ pc = "idle"
    /\ runs = 0
    /\ \E a \in AddArgs :
        /\ cmd' = "add"
        /\ args' = a
    /\ pc' = "add_discover"
    /\ runs' = 1
    /\ UNCHANGED <<disk, status, err, resolverVars, editVars, lockVars, trace,
                   prev, initVars>>
    /\ UNCHANGED <<edits, toolVars>>

\* The user runs `uv init`.
StartInit ==
    /\ pc = "idle"
    /\ runs = 0
    /\ \E a \in InitArgs :
        /\ cmd' = "init"
        /\ args' = a
    /\ pc' = "init_check"
    /\ runs' = 1
    /\ UNCHANGED <<disk, status, err, resolverVars, editVars, lockVars, trace,
                   prev, initVars>>
    /\ UNCHANGED <<edits, toolVars>>

\* The user runs `uv init` again with the same command line.
Rerun ==
    /\ cmd = "init"
    /\ pc \in {"done", "failed"}
    /\ runs < MaxRuns
    /\ runs' = runs + 1
    /\ prev' = Some([status |-> status, content |-> content, disk |-> disk])
    /\ pc' = IF cmd = "add" THEN "add_discover" ELSE "init_check"
    /\ ResetRun
    /\ UNCHANGED <<disk, cmd, args, files, members>>
    /\ UNCHANGED toolVars

Next ==
    \/ StartAdd
    \/ StartInit
    \/ Rerun
    \/ AddDiscover
    \/ AddSetup
    \/ \E k \in 1..MaxBatch : ResolveNamed(k)
    \/ \E k \in 1..MaxBatch : RequestMetadata(k)
    \/ \E k \in 1..MaxBatch : BuildComplete(k)
    \/ \E k \in 1..MaxBatch : WaiterResumes(k)
    \/ AddResolve
    \/ AddParse
    \/ AddEdit
    \/ AddPersist
    \/ AddLock
    \/ AddSync
    \/ InitCheck
    \/ InitDiscoverWorkspace
    \/ InitPython
    \/ InitKind
    \/ InitMember
    \/ InitFrom
    \/ InitResolve
    \/ InitParse
    \/ InitEdit
    \/ InitPersist
    \/ InitLock
    \/ InitSync
    \/ InitReadme

Spec == Init /\ [][Next]_vars

\* -------------------------------------------------------- `uv tool install`
\* The invocation starts with the tools directory and the executable
\* directory as earlier invocations left them.
ToolInit ==
    /\ disk = NoFile
    /\ runs = 0
    /\ cmd = "none"
    /\ args = <<>>
    /\ pc = "idle"
    /\ prev = None
    /\ files = {}
    /\ workspace = None
    /\ members = <<>>
    /\ store = NoCredentials
    /\ installed \in InitialInstalls
    /\ environments = installed.environments
    /\ receipts = installed.receipts
    /\ executables = installed.executables
    /\ tool = NoLocals
    /\ Fresh

\* The user runs `uv tool install`.
ToolStart ==
    /\ pc = "idle"
    /\ runs = 0
    /\ \E a \in ToolArgs :
        /\ cmd' = "tool install"
        /\ args' = a
    /\ pc' = "tool_from"
    /\ runs' = 1
    /\ UNCHANGED <<status, err, trace, toolVars, projectVars>>

\* Without the comparison of the two names: --from is taken as given.
FromRequirementTrustsFrom(package, from) ==
    IF IsSome(from) THEN RequirementFromStr(Unwrap(from))
    ELSE RequirementFromStr(package)

\* The requirement to install: --from when given, which must then name the
\* package of the install request, and the install request otherwise.
FromRequirement(package, from) ==
    IF IsSome(from)
    THEN LET from_requirement == RequirementFromStr(Unwrap(from)) IN
         IF ~from_requirement.ok THEN from_requirement
         ELSE IF from_requirement.value.name # package
         THEN LET package_requirement == RequirementFromStr(package) IN
              IF ~package_requirement.ok THEN package_requirement
              ELSE IF from_requirement.value.name = package_requirement.value.name
              THEN Err("FromConflicts", package)
              ELSE Err("FromDoesNotMatch", package)
         ELSE from_requirement
    ELSE RequirementFromStr(package)

ToolFrom ==
    /\ pc = "tool_from"
    /\ LET from == FromRequirement(args.package, args.from) IN
        IF from.ok
        THEN /\ tool' = [tool EXCEPT !.from = from.value,
                                     !.name = from.value.name]
             /\ pc' = "tool_receipt"
             /\ UNCHANGED <<status, err>>
        ELSE /\ Fail(Failure(from.kind, from.detail, {}))
             /\ UNCHANGED tool
    /\ UNCHANGED <<runs, cmd, args, trace, installVars, installed, projectVars>>

\* ToolReceipt going on to reinstall a tool that is installed already.
ToolReceiptReinstalls ==
    /\ pc = "tool_receipt"
    /\ \E read \in BOOLEAN :
        LET existing_tool_receipt == receipts[tool.name] IN
        IF ~read
        THEN /\ Fail(Failure("Io", "receipt", {}))
             /\ UNCHANGED tool
        ELSE /\ tool' =
                 [tool EXCEPT
                    !.existing_tool_receipt = existing_tool_receipt,
                    !.reinstall_entry_points = IsSome(existing_tool_receipt)]
             /\ pc' = "tool_requirements"
             /\ UNCHANGED <<status, err>>
    /\ UNCHANGED <<runs, cmd, args, trace, installVars, installed, projectVars>>

\* Whether the entry points of an installed tool are to be replaced; a tool
\* that is installed and was not asked to be replaced ends the command.
ToolReceipt ==
    /\ pc = "tool_receipt"
    /\ \E read \in BOOLEAN :
        LET existing_tool_receipt == receipts[tool.name] IN
        IF ~read
        THEN /\ Fail(Failure("Io", "receipt", {}))
             /\ UNCHANGED tool
        ELSE IF /\ IsSome(existing_tool_receipt)
                /\ ~args.force
                /\ args.reinstall.kind = "None"
        THEN /\ pc' = "done"
             /\ status' = "Failure"
             /\ err' = NoError
             /\ UNCHANGED tool
        ELSE /\ tool' =
                 [tool EXCEPT
                    !.existing_tool_receipt = existing_tool_receipt,
                    !.reinstall_entry_points =
                        /\ IsSome(existing_tool_receipt)
                        /\ \/ args.force
                           \/ args.reinstall.kind = "All"
                           \/ /\ args.reinstall.kind = "Packages"
                              /\ tool.from.name \in args.reinstall.packages]
             /\ pc' = "tool_requirements"
             /\ UNCHANGED <<status, err>>
    /\ UNCHANGED <<runs, cmd, args, trace, installVars, installed, projectVars>>

\* The requirement to install followed by the --with requirements.
ToolRequirements ==
    /\ pc = "tool_requirements"
    /\ LET with == [k \in 1..Len(args.with) |-> RequirementFromStr(args.with[k])]
       IN
        IF \A k \in 1..Len(with) : with[k].ok
        THEN /\ tool' = [tool EXCEPT !.requirements =
                            <<tool.from>> \o
                            [k \in 1..Len(with) |-> with[k].value]]
             /\ pc' = "tool_toolchain"
             /\ UNCHANGED <<status, err>>
        ELSE /\ Fail(Failure("Pep508", "with", {}))
             /\ UNCHANGED tool
    /\ UNCHANGED <<runs, cmd, args, trace, installVars, installed, projectVars>>

\* Toolchain::find
ToolToolchain ==
    /\ pc = "tool_toolchain"
    /\ \E found \in BOOLEAN :
        IF found
        THEN pc' = "tool_environment" /\ UNCHANGED <<status, err>>
        ELSE Fail(Failure("Toolchain", "", {}))
    /\ UNCHANGED <<runs, cmd, args, trace, toolVars, projectVars>>

\* InstalledTools::environment: the environment of the tool, created when
\* there is none, and created anew when an existing one is to be removed.
ToolEnvironment ==
    /\ pc = "tool_environment"
    /\ LET remove_existing == args.reinstall.kind # "Packages"
           existed == environments[tool.name] # "absent"
       IN \E outcome \in {"ok", "before", "between"} :
        CASE outcome = "ok" ->
                /\ environments' =
                     [environments EXCEPT ![tool.name] =
                        IF existed /\ ~remove_existing THEN @ ELSE "created"]
                /\ trace' = Append(trace, "environment")
                /\ pc' = "tool_update"
                /\ UNCHANGED <<status, err>>
          [] outcome = "before" ->
                /\ Fail(Failure("Io", "environment", {}))
                /\ UNCHANGED <<environments, trace>>
          [] outcome = "between" ->
                /\ existed /\ remove_existing
                /\ environments' = [environments EXCEPT ![tool.name] = "absent"]
                /\ trace' = Append(trace, "environment")
                /\ Fail(Failure("Io", "environment", {}))
    /\ UNCHANGED <<runs, cmd, args, receipts, executables, tool, installed,
                   projectVars>>

\* update_environment: the requirements are resolved and installed into the
\* environment; a failure may leave it as it was or partly changed.
ToolUpdate ==
    /\ pc = "tool_update"
    /\ \E outcome \in {"ok", "resolve", "install"} :
        CASE outcome = "ok" ->
                /\ environments' = [environments EXCEPT ![tool.name] = "updated"]
                /\ pc' = "tool_site_packages"
                /\ UNCHANGED <<status, err>>
          [] outcome = "resolve" ->
                /\ Fail(Failure("Resolve", "", {}))
                /\ UNCHANGED environments
          [] outcome = "install" ->
                /\ environments' = [environments EXCEPT ![tool.name] = "partial"]
                /\ Fail(Failure("Install", "", {}))
    /\ trace' = Append(trace, "update")
    /\ UNCHANGED <<runs, cmd, args, receipts, executables, tool, installed,
                   projectVars>>

\* The distribution installed for the tool; a tool that was installed and
\* whose entry points are not to be replaced is done.
ToolSitePackages ==
    /\ pc = "tool_site_packages"
    /\ IF environments[tool.name] # "updated"
       THEN Fail(Failure("ExpectedRequirement", "", {}))
       ELSE IF IsSome(tool.existing_tool_receipt) /\ ~tool.reinstall_entry_points
       THEN Succeed
       ELSE pc' = "tool_entry_points" /\ UNCHANGED <<status, err>>
    /\ UNCHANGED <<runs, cmd, args, trace, toolVars, projectVars>>

\* InstalledTools::remove_environment
RemoveEnvironment(name) ==
    /\ environments' = [environments EXCEPT ![name] = "absent"]
    /\ trace' = Append(trace, "remove_environment")

\* ToolEntryPoints reporting a package without entry points and leaving
\* its environment.
ToolEntryPointsLeavesEnvironment ==
    /\ pc = "tool_entry_points"
    /\ \E found \in BOOLEAN :
        LET target_entry_points == EntrypointPaths(tool.from.name) IN
        IF ~found
        THEN /\ Fail(Failure("Io", "executable directory", {}))
             /\ UNCHANGED tool
        ELSE IF target_entry_points = {}
        THEN /\ Fail(Failure("NoEntryPoints", tool.name, {}))
             /\ UNCHANGED tool
        ELSE /\ tool' = [tool EXCEPT !.target_entry_points = target_entry_points]
             /\ pc' = "tool_existing"
             /\ UNCHANGED <<status, err>>
    /\ UNCHANGED <<runs, cmd, args, environments, trace, receipts, executables,
                   installed, projectVars>>

\* The executable directory and the entry points to install into it; a
\* package without entry points is no tool.
ToolEntryPoints ==
    /\ pc = "tool_entry_points"
    /\ \E found \in BOOLEAN :
        LET target_entry_points == EntrypointPaths(tool.from.name) IN
        IF ~found
        THEN /\ Fail(Failure("Io", "executable directory", {}))
             /\ UNCHANGED <<environments, trace, tool>>
        ELSE IF target_entry_points = {}
        THEN \E removed \in BOOLEAN :
               IF removed
               THEN /\ RemoveEnvironment(tool.name)
                    /\ Fail(Failure("NoEntryPoints", tool.name, {}))
                    /\ UNCHANGED tool
               ELSE /\ Fail(Failure("Io", "remove_environment", {}))
                    /\ UNCHANGED <<environments, trace, tool>>
        ELSE /\ tool' = [tool EXCEPT !.target_entry_points = target_entry_points]
             /\ pc' = "tool_existing"
             /\ UNCHANGED <<status, err, environments, trace>>
    /\ UNCHANGED <<runs, cmd, args, receipts, executables, installed,
                   projectVars>>

\* The first `k` of a set of executables, in the order of a BTreeSet.
FirstOf(set, k) == {e \in set : Cardinality({x \in set : x < e}) < k}

\* ToolExisting removing the files whenever a reinstall was asked for,
\* receipt or not.
ToolExistingByReinstallSetting ==
    /\ pc = "tool_existing"
    /\ LET existing_entry_points ==
               {e \in tool.target_entry_points : executables[e] # "absent"}
       IN
        IF args.force \/ args.reinstall.kind # "None"
        THEN \E k \in 0..Cardinality(existing_entry_points) :
               /\ executables' =
                    [e \in Executables |->
                        IF e \in FirstOf(existing_entry_points, k)
                        THEN "absent" ELSE executables[e]]
               /\ trace' = trace \o [n \in 1..k |-> "remove_file"]
               /\ IF k = Cardinality(existing_entry_points)
                  THEN pc' = "tool_install" /\ UNCHANGED <<status, err>>
                  ELSE Fail(Failure("Io", "remove_file", {}))
               /\ UNCHANGED environments
        ELSE IF existing_entry_points # {}
        THEN \E removed \in BOOLEAN :
               /\ IF removed
                  THEN /\ RemoveEnvironment(tool.name)
                       /\ Fail(Failure("EntryPointsExist", tool.name, {}))
                  ELSE /\ Fail(Failure("Io", "remove_environment", {}))
                       /\ UNCHANGED <<environments, trace>>
               /\ UNCHANGED executables
        ELSE /\ pc' = "tool_install"
             /\ UNCHANGED <<status, err, environments, executables, trace>>
    /\ UNCHANGED <<runs, cmd, args, receipts, tool, installed, projectVars>>

\* The target paths that exist already: removed under --force or when the
\* entry points of the tool are replaced, and fatal otherwise.
ToolExisting ==
    /\ pc = "tool_existing"
    /\ LET existing_entry_points ==
               {e \in tool.target_entry_points : executables[e] # "absent"}
       IN
        IF args.force \/ tool.reinstall_entry_points
        THEN \E k \in 0..Cardinality(existing_entry_points) :
               /\ executables' =
                    [e \in Executables |->
                        IF e \in FirstOf(existing_entry_points, k)
                        THEN "absent" ELSE executables[e]]
               /\ trace' = trace \o [n \in 1..k |-> "remove_file"]
               /\ IF k = Cardinality(existing_entry_points)
                  THEN pc' = "tool_install" /\ UNCHANGED <<status, err>>
                  ELSE Fail(Failure("Io", "remove_file", {}))
               /\ UNCHANGED environments
        ELSE IF existing_entry_points # {}
        THEN \E removed \in BOOLEAN :
               /\ IF removed
                  THEN /\ RemoveEnvironment(tool.name)
                       /\ Fail(Failure("EntryPointsExist", tool.name, {}))
                  ELSE /\ Fail(Failure("Io", "remove_environment", {}))
                       /\ UNCHANGED <<environments, trace>>
               /\ UNCHANGED executables
        ELSE /\ pc' = "tool_install"
             /\ UNCHANGED <<status, err, environments, executables, trace>>
    /\ UNCHANGED <<runs, cmd, args, receipts, tool, installed, projectVars>>

\* The receipt written once the first entry point is linked.
ToolInstallFirstOnly ==
    /\ pc = "tool_install"
    /\ LET left == tool.target_entry_points \ tool.linked
           next == CHOOSE e \in left : \A x \in left : e <= x
       IN \E linked \in BOOLEAN :
        IF linked
        THEN /\ executables' = [executables EXCEPT ![next] = "installed"]
             /\ tool' = [tool EXCEPT !.linked = @ \cup {next}]
             /\ trace' = Append(trace, "replace_symlink")
             /\ pc' = "tool_add_receipt"
             /\ UNCHANGED <<status, err>>
        ELSE /\ Fail(Failure("Io", "replace_symlink", {}))
             /\ UNCHANGED <<executables, tool, trace>>
    /\ UNCHANGED <<runs, cmd, args, environments, receipts, installed,
                   projectVars>>

\* One turn of the loop that links the entry points into the executable
\* directory, in the order of the BTreeSet.
ToolInstall ==
    /\ pc = "tool_install"
    /\ LET left == tool.target_entry_points \ tool.linked
           next == CHOOSE e \in left : \A x \in left : e <= x
       IN \E linked \in BOOLEAN :
        IF linked
        THEN /\ executables' = [executables EXCEPT ![next] = "installed"]
             /\ tool' = [tool EXCEPT !.linked = @ \cup {next}]
             /\ trace' = Append(trace, "replace_symlink")
             /\ pc' = IF left = {next} THEN "tool_add_receipt" ELSE pc
             /\ UNCHANGED <<status, err>>
        ELSE /\ Fail(Failure("Io", "replace_symlink", {}))
             /\ UNCHANGED <<executables, tool, trace>>
    /\ UNCHANGED <<runs, cmd, args, environments, receipts, installed,
                   projectVars>>

\* The receipt of the tool: its requirements and its entry points.
ToolAddReceipt ==
    /\ pc = "tool_add_receipt"
    /\ \E written \in BOOLEAN :
        IF written
        THEN /\ receipts' =
                 [receipts EXCEPT ![tool.name] =
                    Some([requirements |-> tool.requirements,
                          entrypoints |-> tool.target_entry_points,
                          written |-> "now"])]
             /\ trace' = Append(trace, "add_tool_receipt")
             /\ Succeed
        ELSE /\ Fail(Failure("Io", "add_tool_receipt", {}))
             /\ UNCHANGED <<receipts, trace>>
    /\ UNCHANGED <<runs, cmd, args, environments, executables, tool, installed,
                   projectVars>>

ToolNext ==
    \/ ToolStart
    \/ ToolFrom
    \/ ToolReceipt
    \/ ToolRequirements
    \/ ToolToolchain
    \/ ToolEnvironment
    \/ ToolUpdate
    \/ ToolSitePackages
    \/ ToolEntryPoints
    \/ ToolExisting
    \/ ToolInstall
    \/ ToolAddReceipt

ToolSpec == ToolInit /\ [][ToolNext]_vars

\* =================================================================== claims
InTrace(e) == \E k \in 1..Len(trace) : trace[k] = e

\* How many of the first k - 1 events of the trace are e.
CountBefore(e, k) == Cardinality({j \in 1..(k - 1) : trace[j] = e})

ProjectAdd == cmd = "add" /\ ~args.script

\* C1: in every run of add on a project, pyproject.toml is written before
\* do_lock is invoked; do_lock is invoked only once the requirements are
\* resolved and every one of them is classified and edited into the manifest;
\* do_sync is invoked only after do_lock returned a Lock, and with that Lock.
C1_AddPipelineOrder ==
    ProjectAdd =>
        /\ \A k \in 1..Len(trace) :
            trace[k] = "lock" =>
                /\ CountBefore("write", k) = 1
                /\ CountBefore("resolved", k) = 1
                /\ Len(reqs) = Len(args.requirements)
                /\ CountBefore("edited", k) = Len(reqs)
                /\ ~args.raw_sources =>
                       CountBefore("classified", k) = Len(reqs)
        /\ \A k \in 1..Len(trace) :
            trace[k] = "sync" =>
                /\ CountBefore("lock_ok", k) = 1
                /\ IsSome(lock)
                /\ IsSome(syncArgs)
                /\ Unwrap(syncArgs).lock = Unwrap(lock)
        /\ IsSome(syncArgs) => InTrace("sync")

C1_Witness ==
    /\ ProjectAdd
    /\ pc = "done"
    /\ Len(reqs) = 2
    /\ ~args.raw_sources
    /\ trace = <<"resolved", "classified", "edited", "classified", "edited",
                 "write", "lock", "lock_ok", "sync">>

\* C2: when do_lock or do_sync fails after the manifest was written, the run
\* ends there (after a failed do_lock, do_sync is never invoked) and
\* pyproject.toml keeps the edited text.
C2_NoRollback ==
    (status = "Error" /\ err.kind \in {"Lock", "Sync"}) =>
        /\ InTrace("write")
        /\ disk = content
        /\ err.kind = "Lock" =>
               /\ ~InTrace("sync")
               /\ syncArgs = None
               /\ trace[Len(trace)] = "lock"
        /\ err.kind = "Sync" => trace[Len(trace)] = "sync"

C2_Witness ==
    /\ ProjectAdd
    /\ status = "Error"
    /\ err.kind = "Lock"
    /\ disk # loaded

\* C3 (as stated): in add and in init --from-project, pyproject.toml is
\* written after the edits only when the rendered text differs from the
\* loaded text.
C3_WriteOnlyIfChanged == InTrace("write") => content # loaded

\* C4 (as stated): when the rendered manifest equals the loaded text,
\* neither do_lock nor do_sync is invoked and the run does not end in a
\* lock or sync error.
C4_UnchangedSkipsLockSync ==
    (content.exists /\ content = loaded) =>
        /\ ~InTrace("lock")
        /\ ~InTrace("sync")
        /\ lock = None
        /\ syncArgs = None
        /\ err.kind \notin {"Lock", "Sync"}

Unresolvable(r) ==
    /\ r.kind = "git"
    /\ ~r.pinned
    /\ r.name \notin WorkspacePackages
    /\ Supplied(args.rev, args.tag, args.branch) = 0

\* C6: add never records a Git requirement that pins no reference and got no
\* reference flag (no Git source without rev, tag and branch is written);
\* the run fails with the message that names the requirement and --tag,
\* --branch, --rev and --raw-sources.
C6_UnresolvedReference ==
    (ProjectAdd /\ ~args.raw_sources) =>
        /\ \A k \in 1..Len(reqs) : k < i => ~Unresolvable(reqs[k])
        /\ \A n \in Names :
            (IsSome(pyproject.sources[n])
                /\ Unwrap(pyproject.sources[n]).type = "git") =>
            \/ Unwrap(pyproject.sources[n]).rev # ""
            \/ Unwrap(pyproject.sources[n]).tag # ""
            \/ Unwrap(pyproject.sources[n]).branch # ""
        /\ (pc = "failed" /\ err.kind = "CannotResolveGitReference") =>
            /\ Unresolvable(reqs[i])
            /\ err.about = reqs[i].name
            /\ err.flags = {"--tag", "--branch", "--rev", "--raw-sources"}
        /\ (pc \in {"add_lock", "add_sync", "done"}) =>
            \A k \in 1..Len(reqs) : ~Unresolvable(reqs[k])

C6_Witness ==
    /\ ProjectAdd
    /\ ~args.raw_sources
    /\ pc = "failed"
    /\ err.kind = "CannotResolveGitReference"
    /\ i = 2
    /\ reqs[1].kind = "git"

\* C7: when classifying a requirement of the batch fails, at any position,
\* add fails as a whole: pyproject.toml is as it was loaded and neither
\* do_lock nor do_sync is invoked.
C7_ClassificationFailureIsWhole ==
    (/\ cmd = "add"
     /\ pc = "failed"
     /\ err.kind \in {"CannotResolveGitReference", "Source"}) =>
        /\ status = "Error"
        /\ disk = loaded
        /\ ~InTrace("write")
        /\ ~InTrace("lock")
        /\ ~InTrace("sync")
        /\ lock = None
        /\ syncArgs = None

C7_Witness ==
    /\ cmd = "add"
    /\ pc = "failed"
    /\ err.kind = "CannotResolveGitReference"
    /\ i = 2
    /\ pyproject # Doc(loaded)

AfterResolve ==
    {"add_parse", "add_edit", "add_lock", "add_sync", "init_parse",
     "init_edit", "init_process", "init_sync", "done"}

\* C8: when resolving a requirement of the batch fails, the resolver returns
\* the error and no list (the command goes on only with every unit
\* resolved), and add makes no manifest edit, no write, no lock, no sync.
C8_ResolutionFailureIsWhole ==
    /\ (pc = "failed" /\ err.kind = "Resolve") =>
        /\ reqs = <<>>
        /\ pyproject = EmptyDoc
        /\ trace = <<>>
        /\ ~content.exists
        /\ lock = None
        /\ syncArgs = None
        /\ ProjectAdd => disk = loaded
    /\ (cmd = "add" /\ pc \in AfterResolve) =>
        /\ Len(reqs) = Len(units)
        /\ \A k \in 1..Len(units) : IsSome(slot[k]) /\ Unwrap(slot[k]).ok

C8_Witness ==
    /\ cmd = "add"
    /\ pc = "failed"
    /\ err.kind = "Resolve"
    /\ Len(units) = 2
    /\ IsSome(slot[1])
    /\ Unwrap(slot[1]).ok
    /\ ~Unwrap(slot[2]).ok

\* C9: a successful resolve returns as many results as it was given units,
\* the k-th result being that of the k-th unit, whatever the order in which
\* the tasks completed.
C9_OutputOrder ==
    /\ (cmd = "add" /\ pc \in AfterResolve) =>
        /\ Len(reqs) = Len(args.requirements)
        /\ \A k \in 1..Len(reqs) :
            /\ reqs[k].name = args.requirements[k].name
            /\ reqs[k].loc = args.requirements[k].loc
            /\ reqs[k].pinned = args.requirements[k].pinned
            /\ reqs[k].named
    /\ (Resolving /\ IsSome(ResolverResult) /\ Unwrap(ResolverResult).ok) =>
        /\ Len(Unwrap(ResolverResult).value) = Len(units)
        /\ \A k \in 1..Len(units) :
            Fingerprint(Unwrap(ResolverResult).value[k]) =
                Fingerprint(units[k])

C9_Witness ==
    /\ cmd = "add"
    /\ pc = "add_parse"
    /\ order = <<2, 1>>
    /\ Fingerprint(reqs[1]) # Fingerprint(reqs[2])
    /\ task = <<"done", "done">>

\* C10: however the requests interleave, the metadata build of a fingerprint
\* is started exactly once for all the tasks that ask for it, and they all
\* observe the same result (the same metadata or the same failure).
C10_SingleBuild ==
    /\ \A fp \in DOMAIN builds : builds[fp] <= 1
    /\ \A k \in 1..Len(units) :
        (NeedsMetadata(units[k]) /\ task[k] # "pending") =>
            builds[Fingerprint(units[k])] = 1
    /\ \A k \in 1..Len(units) :
        (NeedsMetadata(units[k]) /\ IsSome(slot[k])) =>
            slot[k] = index[Fingerprint(units[k])]
    /\ \A j, k \in 1..Len(units) :
        (/\ Fingerprint(units[j]) = Fingerprint(units[k])
         /\ IsSome(slot[j])
         /\ IsSome(slot[k])) => slot[j] = slot[k]

C10_Witness ==
    /\ Len(units) = 2
    /\ Fingerprint(units[1]) = Fingerprint(units[2])
    /\ task = <<"done", "resumed">>
    /\ ~Unwrap(slot[2]).ok
    /\ builds[Fingerprint(units[1])] = 1

\* C11: once the metadata build of a fingerprint has failed, the failure is
\* what the index holds for it: no task is building it again, the build was
\* started once, and every task that has a result for that fingerprint has
\* that same failure.
C11_FailureIsCached ==
    \A k \in 1..Len(units) :
        (/\ NeedsMetadata(units[k])
         /\ IsSome(slot[k])
         /\ ~Unwrap(slot[k]).ok) =>
            LET fp == Fingerprint(units[k]) IN
            /\ index[fp] = slot[k]
            /\ fp \notin inFlight
            /\ builds[fp] = 1
            /\ \A j \in 1..Len(units) :
                Fingerprint(units[j]) = fp =>
                    /\ task[j] # "building"
                    /\ IsSome(slot[j]) => slot[j] = slot[k]

\* The second task asks for the fingerprint after the build the first one
\* started has failed, and reads the failure.
C11_Witness ==
    /\ Len(units) = 2
    /\ Fingerprint(units[1]) = Fingerprint(units[2])
    /\ order = <<1, 2>>
    /\ task = <<"done", "done">>
    /\ ~Unwrap(slot[1]).ok
    /\ slot[2] = slot[1]
    /\ builds[Fingerprint(units[1])] = 1

\* The index keeps what it holds for a fingerprint for the whole invocation.
IndexWrittenOnce ==
    \A fp \in DOMAIN index : IsSome(index[fp]) => index'[fp] = index[fp]

\* The store keeps what it holds for a repository for the whole invocation.
StoreWrittenOnce ==
    \A u \in RepositoryUrls : IsSome(store[u]) => store'[u] = store[u]

\* C12 (as stated): within one invocation, a key of the InMemoryIndex or of
\* the credential store that holds a value is never given different data;
\* two Git sources of one repository with different credentials do not
\* overwrite each other's entry.
C12_WriteOnce ==
    [][runs' = runs => (IndexWrittenOnce /\ StoreWrittenOnce)]_vars

\* The Git sources of a sources table carry no userinfo.
NoCredentialsIn(sources) ==
    \A n \in Names :
        (IsSome(sources[n]) /\ Unwrap(sources[n]).type = "git") =>
            Unwrap(sources[n]).creds = ""

\* C13 (as stated): in add and in init --from-project, no Git source handed
\* to the manifest edit, and none written to pyproject.toml, embeds
\* credentials.
C13_NoCredentialsInManifest ==
    /\ NoCredentialsIn(pyproject.sources)
    /\ NoCredentialsIn(disk.sources)

\* A Git requirement of the import whose URL embeds credentials.
EmbedsCredentials(r) ==
    /\ r.kind = "git"
    /\ r.creds # ""
    /\ r.name \notin WorkspacePackages

Recorded == {k \in 1..Len(reqs) : k < i}

\* C15 (as stated): with --raw-sources, add and init --from-project classify
\* no requirement: none fails with a classification error, the sources
\* table stays as loaded, and every recorded requirement with a URL or path
\* keeps it inline in its PEP 508 entry.
C15_RawSourcesSkipsClassification ==
    (cmd \in {"add", "init"} /\ args.raw_sources) =>
        /\ ~InTrace("classified")
        /\ err.kind \notin {"CannotResolveGitReference", "Source"}
        /\ pc \notin {"idle", "add_discover", "add_setup", "add_resolve",
                      "add_parse", "init_check", "init_discover",
                      "init_python", "init_kind", "init_member", "init_from",
                      "init_resolve", "init_parse"} =>
            /\ pyproject.sources = loaded.sources
            /\ \A k \in Recorded :
                reqs[k].kind # "registry" =>
                    \E e \in 1..Len(pyproject.deps) :
                        /\ pyproject.deps[e].name = reqs[k].name
                        /\ pyproject.deps[e].url = reqs[k].loc

\* The dependency list `add` puts its requirements into.
TableOf(doc, dependency_type) ==
    IF dependency_type.type = "Production" THEN doc.deps
    ELSE IF dependency_type.type = "Dev" THEN doc.dev
    ELSE doc.opt[dependency_type.group]

\* C16: in add on a project without --raw-sources, every requirement the
\* loop has recorded has an entry in its dependency list that carries no URL
\* or path, and the sources table has an entry for its name exactly when it
\* is not a registry requirement; pyproject.toml, once written, shows the
\* same.
C16_LocatorInOnePlace ==
    (ProjectAdd /\ ~args.raw_sources /\ pc # "add_discover") =>
        /\ \A k \in Recorded :
            /\ \E e \in 1..Len(TableOf(pyproject, args.dependency_type)) :
                LET entry == TableOf(pyproject, args.dependency_type)[e]
                IN  /\ entry.name = reqs[k].name
                    /\ entry.url = ""
            /\ IsSome(pyproject.sources[reqs[k].name])
                   <=> reqs[k].kind # "registry"
        /\ InTrace("write") =>
            /\ \A e \in 1..Len(TableOf(disk, args.dependency_type)) :
                TableOf(disk, args.dependency_type)[e].url = ""
            /\ disk.sources = pyproject.sources

C16_Witness ==
    /\ ProjectAdd
    /\ ~args.raw_sources
    /\ InTrace("write")
    /\ Len(reqs) = 2
    /\ reqs[1].kind = "registry"
    /\ reqs[2].kind = "path"
    /\ disk.sources[reqs[1].name] = None
    /\ IsSome(disk.sources[reqs[2].name])

\* How many of rev, tag and branch the source sets.
ReferencesOf(source) == Supplied(source.rev, source.tag, source.branch)

\* C17: every Git source add records sets at most one of rev, tag and
\* branch; for a Git requirement the loop has recorded, the source holds
\* every flag that was supplied (so with --branch b alone it is branch b,
\* no rev, no tag), the reference pinned in the URL when no flag was, and
\* with two or more flags no Git requirement is recorded at all.
C17_OneReference ==
    (ProjectAdd /\ ~args.raw_sources) =>
        /\ \A n \in Names :
            (IsSome(pyproject.sources[n])
                /\ Unwrap(pyproject.sources[n]).type = "git") =>
            ReferencesOf(Unwrap(pyproject.sources[n])) <= 1
        /\ \A k \in Recorded :
            (reqs[k].kind = "git" /\ reqs[k].name \notin WorkspacePackages) =>
                LET source == Unwrap(pyproject.sources[reqs[k].name])
                    flags == Supplied(args.rev, args.tag, args.branch)
                IN  /\ IsSome(pyproject.sources[reqs[k].name])
                    /\ source.type = "git"
                    /\ flags <= 1
                    /\ flags = 1 =>
                        /\ source.rev = args.rev
                        /\ source.tag = args.tag
                        /\ source.branch = args.branch
                    /\ flags = 0 =>
                        /\ reqs[k].pinned
                        /\ source.rev = PinnedRev
                        /\ source.tag = ""
                        /\ source.branch = ""

\* The scenario: a Git URL added with --branch main alone.
C17_Witness ==
    /\ ProjectAdd
    /\ ~args.raw_sources
    /\ pc = "add_sync"
    /\ args.branch = "main"
    /\ args.rev = ""
    /\ args.tag = ""
    /\ Len(reqs) = 1
    /\ reqs[1].kind = "git"
    /\ ~reqs[1].pinned
    /\ disk.sources[reqs[1].name] =
           Some(GitSource(reqs[1].loc, "", "", "main"))
    /\ disk.deps[1].url = ""

\* `uv add a` on a project: one bare name, the production table, no extras
\* and no source option.
BareNameAdd ==
    /\ ProjectAdd
    /\ args.requirements = <<ReqA>>
    /\ args.dependency_type = Production
    /\ args.extras = <<>>
    /\ args.editable = None
    /\ ~args.raw_sources
    /\ Supplied(args.rev, args.tag, args.branch) = 0

\* C18: adding a bare name as a production dependency records the entry
\* with the bare name in project.dependencies only, writes no source entry,
\* and once pyproject.toml is written invokes do_lock and then do_sync; no
\* such run fails in the classifier.
C18_RegistryScenario ==
    BareNameAdd =>
        /\ err.kind \notin {"CannotResolveGitReference", "Source"}
        /\ (pc = "add_edit" /\ i = 2) \/ InTrace("write") =>
            /\ \E e \in 1..Len(pyproject.deps) :
                pyproject.deps[e] = Pep508(ReqA)
            /\ pyproject.dev = loaded.dev
            /\ pyproject.opt = loaded.opt
            /\ pyproject.sources = loaded.sources
            /\ pyproject.sources["a"] = None
        /\ InTrace("write") =>
            /\ disk = Render(pyproject)
            /\ \/ pc \in {"add_lock", "add_sync"}
               \/ pc = "failed" /\ err.kind \in {"Lock", "Sync"}
               \/ pc = "done"
        /\ pc = "done" =>
            /\ status = "Success"
            /\ trace = <<"resolved", "classified", "edited", "write", "lock",
                         "lock_ok", "sync">>

C18_Witness ==
    /\ BareNameAdd
    /\ loaded = EmptyText
    /\ pc = "done"
    /\ disk = Text(<<Pep508(ReqA)>>, <<>>, NoOptional, NoSources)
    /\ IsSome(lock)
    /\ IsSome(syncArgs)

\* The longest extras list the merge is checked on.
MaxExtras == 2

\* The elements of a sequence.
Range(s) == {s[k] : k \in 1..Len(s)}

StrictlyIncreasing(s) == \A k \in 1..(Len(s) - 1) : s[k] < s[k + 1]

\* The lists of at most MaxExtras extras, in any order, repeats included.
ExtraLists == UNION {[1..n -> ExtraNames] : n \in 0..MaxExtras}

\* C19: the extras of every entry add has recorded are the union of the
\* requirement's extras and the --extra list, strictly increasing; and for
\* every requirement extras list and every --extra list (unsorted and
\* overlapping ones included) the merge yields that union strictly
\* increasing, and merging the same list again changes nothing.
C19_ExtrasMerged ==
    /\ cmd = "add" =>
        \A k \in Recorded :
            /\ \E e \in 1..Len(TableOf(pyproject, args.dependency_type)) :
                LET entry == TableOf(pyproject, args.dependency_type)[e]
                IN  /\ entry.name = reqs[k].name
                    /\ StrictlyIncreasing(entry.extras)
                    /\ Range(entry.extras) =
                           Range(reqs[k].extras) \cup Range(args.extras)
            /\ MergeExtras(MergeExtras(reqs[k], args.extras), args.extras)
                   = MergeExtras(reqs[k], args.extras)
    /\ pc = "idle" =>
            \A own \in ExtraLists, cli \in ExtraLists :
                LET r == [ReqPath EXCEPT !.extras = own]
                    merged == MergeExtras(r, cli)
                IN  /\ StrictlyIncreasing(merged.extras)
                    /\ Range(merged.extras) = Range(own) \cup Range(cli)
                    /\ MergeExtras(merged, cli) = merged
                    /\ [merged EXCEPT !.extras = own] = r

\* --extra 2 --extra 1 for a requirement that already names the extra 2.
C19_Witness ==
    /\ ProjectAdd
    /\ args.extras = <<2, 1>>
    /\ args.dependency_type = Production
    /\ args.requirements = <<ReqPath>>
    /\ i = 2
    /\ pyproject.deps[Len(pyproject.deps)].name = "c"
    /\ pyproject.deps[Len(pyproject.deps)].extras = <<1, 2>>

\* The entries named `name` of a dependency list.
EntriesOf(list, name) == {e \in 1..Len(list) : list[e].name = name}

\* The extras a marker names in `extra == 'X'` atoms.
ExtrasNamed(marker) ==
    UNION {{marker[c][a].value :
               a \in {b \in 1..Len(marker[c]) :
                         /\ marker[c][b].key = "extra"
                         /\ marker[c][b].op = "=="}} :
           c \in 1..Len(marker)}

\* The marker is `marker` without its extra atoms: the same clauses, each
\* with its other atoms in their order.
SameButExtras(simplified, marker) ==
    /\ Len(simplified) = Len(marker)
    /\ \A c \in 1..Len(marker) :
        /\ \A a \in 1..Len(simplified[c]) : simplified[c][a].key # "extra"
        /\ simplified[c] = SelectSeq(marker[c], LAMBDA x : x.key # "extra")

\* The extras a marker has an atom on, whatever the operator.
ExtrasMentioned(marker) ==
    UNION {{marker[c][a].value :
               a \in {b \in 1..Len(marker[c]) : marker[c][b].key = "extra"}} :
           c \in 1..Len(marker)}

\* C20: in init --from-project, a recorded requirement whose marker names
\* extras in `extra == 'X'` atoms has one entry in each such group X and
\* none in project.dependencies, none in the dev list and none in a group its
\* marker has no atom on, and the marker of the entry is the requirement's
\* without the extra atoms; a recorded requirement whose marker has no extra
\* atom has one entry, in project.dependencies, with its marker as it was.
C20_ExtraMarkersBecomeGroups ==
    cmd = "init" =>
        \A k \in Recorded :
            LET name == reqs[k].name
                groups == ExtrasNamed(reqs[k].marker)
                mentioned == ExtrasMentioned(reqs[k].marker)
            IN  /\ groups # {} => EntriesOf(pyproject.deps, name) = {}
                /\ mentioned = {} =>
                    Cardinality(EntriesOf(pyproject.deps, name)) = 1
                /\ \A e \in EntriesOf(pyproject.deps, name) :
                    pyproject.deps[e].marker = reqs[k].marker
                /\ EntriesOf(pyproject.dev, name) = {}
                /\ \A g \in Groups :
                    /\ g \in groups =>
                        /\ Cardinality(EntriesOf(pyproject.opt[g], name)) = 1
                        /\ \A e \in EntriesOf(pyproject.opt[g], name) :
                            SameButExtras(pyproject.opt[g][e].marker,
                                          reqs[k].marker)
                    /\ g \notin mentioned =>
                        EntriesOf(pyproject.opt[g], name) = {}

\* sys_platform and extra == 1: recorded under group 1 with the sys_platform
\* atom left, next to a requirement whose marker names no extra.
C20_Witness ==
    /\ cmd = "init"
    /\ pc = "done"
    /\ Len(reqs) = 2
    /\ reqs[2].marker = <<<<PlatformAtom, ExtraAtom("==", 1)>>>>
    /\ Len(disk.deps) = 1
    /\ disk.deps[1].marker = <<<<PlatformAtom>>>>
    /\ Len(disk.opt[1]) = 1
    /\ disk.opt[1][1].name = reqs[2].name
    /\ disk.opt[1][1].marker = <<<<PlatformAtom>>>>
    /\ disk.opt[2] = <<>>

\* The invocation has parsed the manifest it loaded into `pyproject`.
AddParsed ==
    \/ pc \in {"add_edit", "add_lock", "add_sync", "done"}
    \/ /\ pc = "failed"
       /\ err.kind \in {"CannotResolveGitReference", "Source", "Io", "Lock",
                        "Sync"}

\* C21: in add, every requirement the loop has recorded is in the table the
\* dependency type selects, and every other dependency table of the manifest
\* is as it was loaded.
C21_EditsTargetOneTable ==
    (cmd = "add" /\ AddParsed) =>
        /\ \A k \in Recorded :
            EntriesOf(TableOf(pyproject, args.dependency_type),
                      reqs[k].name) # {}
        /\ \A t \in DependencyTypes :
            t # args.dependency_type =>
                TableOf(pyproject, t) = TableOf(loaded, t)
        /\ InTrace("write") =>
            \A t \in DependencyTypes :
                t # args.dependency_type =>
                    TableOf(disk, t) = TableOf(loaded, t)

\* Two requirements added with --optional 1 to a project that lists a.
C21_Witness ==
    /\ ProjectAdd
    /\ args.dependency_type = Optional(1)
    /\ pc = "done"
    /\ loaded.deps = <<Pep508(ReqA)>>
    /\ disk.deps = loaded.deps
    /\ disk.dev = <<>>
    /\ Len(disk.opt[1]) = 2
    /\ disk.opt[2] = <<>>

C23_UnparsableManifestIsFatal ==
    (cmd \in {"add", "init"} /\ loaded.exists /\ ~loaded.ok) =>
        /\ pc \notin {"add_edit", "add_lock", "add_sync", "init_edit",
                      "init_process", "init_sync", "init_readme", "done"}
        /\ status # "Success"
        /\ pc = "failed" => status = "Error"
        /\ pyproject = EmptyDoc
        /\ ~content.exists
        /\ disk = loaded
        /\ ~InTrace("edited")
        /\ ~InTrace("write")
        /\ ~InTrace("lock")
        /\ ~InTrace("sync")
        /\ lock = None
        /\ syncArgs = None

\* from_toml has refused the manifest, after the requirements were resolved.
C23_Witness ==
    /\ cmd = "add"
    /\ pc = "failed"
    /\ err.kind = "Toml"
    /\ Len(reqs) = 2
    /\ disk = Malformed
    /\ loaded = Malformed

\* C24: whenever add has invoked do_sync, it was with every extra selected
\* and the dev dependencies included, whatever the table, the --extra list
\* and the other arguments of the add.
C24_FullSyncAfterAdd ==
    cmd = "add" =>
        /\ InTrace("sync") <=> IsSome(syncArgs)
        /\ IsSome(syncArgs) =>
            /\ Unwrap(syncArgs).extras = "All"
            /\ Unwrap(syncArgs).dev = TRUE
            /\ Unwrap(syncArgs).modifications = "Sufficient"

\* A production dependency added with no --extra: still a full sync.
C24_Witness ==
    /\ ProjectAdd
    /\ args.dependency_type = Production
    /\ args.extras = <<>>
    /\ Len(reqs) = 1
    /\ pc = "done"
    /\ Unwrap(syncArgs).extras = "All"
    /\ Unwrap(syncArgs).dev

\* `uv tool install` was given --from, and the name of that requirement is
\* not what the install request spells.
FromDiffers ==
    /\ cmd = "tool install"
    /\ IsSome(args.from)
    /\ RequirementFromStr(Unwrap(args.from)).ok
    /\ RequirementFromStr(Unwrap(args.from)).value.name # args.package

\* The tools directory and the executable directory are as the invocation
\* found them, and nothing was done to them.
NothingMutated ==
    /\ environments = installed.environments
    /\ receipts = installed.receipts
    /\ executables = installed.executables
    /\ trace = <<>>

\* C25: when --from names another package than the install request, tool
\* install fails, whatever the other arguments and whatever is installed, and
\* no environment, entry point or receipt has been touched.
C25_FromMismatchFailsFirst ==
    FromDiffers =>
        /\ pc \in {"tool_from", "failed"}
        /\ NothingMutated
        /\ pc = "failed" =>
            /\ status = "Error"
            /\ err.kind \in {"FromConflicts", "FromDoesNotMatch", "Pep508"}

\* --from a (installed already) with --force for the install request b.
C25_Witness ==
    /\ FromDiffers
    /\ args.package = "b"
    /\ args.from = Some("a")
    /\ args.force
    /\ IsSome(installed.receipts["a"])
    /\ pc = "failed"
    /\ err.kind = "FromDoesNotMatch"

\* The workspace init discovered takes the new project as a member: it
\* neither excludes its path nor includes it already.
Joins ==
    /\ IsSome(workspace)
    /\ ~Unwrap(workspace).excludes
    /\ ~Unwrap(workspace).includes

\* C26: the members of the parent workspace are written only by the step of
\* init that follows the creation of the project files, only when a workspace
\* was discovered that neither excludes nor includes the path, and then the
\* path is appended; when that step goes on with such a workspace, it has
\* written them.
C26_MembersWrittenIffJoins ==
    [][/\ members' # members =>
            /\ cmd = "init"
            /\ pc = "init_member"
            /\ Joins
            /\ members' = Append(members, ProjectPath)
       /\ (pc = "init_member" /\ pc' = "init_from") =>
            (members' # members <=> Joins)]_vars

\* init has appended the project to the members of a workspace that
\* neither excluded nor included it.
C26_Witness ==
    /\ cmd = "init"
    /\ pc = "init_from"
    /\ Joins
    /\ members = <<ProjectPath>>

\* C27 (as stated): the extras init collects from the marker of a requirement
\* are the names of its `extra == 'X'` atoms, and a recorded requirement has
\* an entry in an optional group only if its marker has such an atom on the
\* group.
C27_OnlyEqualityAtomsExtract ==
    cmd = "init" =>
        /\ (pc = "init_edit" /\ i <= Len(reqs)) =>
            Range(MarkerExtras(reqs[i].marker)) = ExtrasNamed(reqs[i].marker)
        /\ \A k \in Recorded : \A g \in Groups :
            EntriesOf(pyproject.opt[g], reqs[k].name) # {} =>
                g \in ExtrasNamed(reqs[k].marker)

\* The edits init made that put the requirement `name` into an optional group.
OptionalEdits(name) ==
    {e \in 1..Len(edits) :
        /\ edits[e].requirement.name = name
        /\ edits[e].dependency_type.type = "Optional"}

\* C28 (as stated): init makes as many optional-dependency edits for a
\* recorded requirement as its marker has distinct extra names, no two of
\* them for the same group.
C28_OneEditPerExtra ==
    cmd = "init" =>
        \A k \in Recorded :
            LET made == OptionalEdits(reqs[k].name) IN
            /\ Cardinality(made) =
                   Cardinality(ExtrasMentioned(reqs[k].marker))
            /\ \A d, e \in made :
                edits[d].dependency_type = edits[e].dependency_type => d = e

\* C29: the step init takes on a directory that holds a pyproject.toml ends
\* it with "Project is already initialized", and leaves the manifest, the
\* other files and the workspace members as they were; nothing was started
\* before it: no resolver, no lock, no sync, no side effect.
C29_ExistingProjectRefusedFirst ==
    [][(cmd = "init" /\ pc = "init_check" /\ disk.exists) =>
        /\ pc' = "failed"
        /\ status' = "Error"
        /\ err'.kind = "AlreadyInitialized"
        /\ UNCHANGED <<disk, initVars, resolverVars, editVars, edits, lockVars,
                       trace>>
        /\ trace = <<>>
        /\ units = <<>>
        /\ ~content.exists
        /\ lock = None
        /\ syncArgs = None]_vars

\* The first init of a command line with --from-project, in a directory
\* whose pyproject.toml the user wrote.
C29_Witness ==
    /\ cmd = "init"
    /\ runs = 1
    /\ IsSome(args.from_project)
    /\ ~args.no_workspace
    /\ pc = "failed"
    /\ err.kind = "AlreadyInitialized"
    /\ disk.exists
    /\ disk.layout = "user"
    /\ files = {}
    /\ members = <<>>

\* C30: with --no-workspace, init holds no workspace, has not written the
\* members of one, and has not failed in workspace discovery; an init that
\* failed in workspace discovery ran without --no-workspace, names the flag,
\* and has created no pyproject.toml and no other file.
C30_NoWorkspaceIgnoresDiscovery ==
    cmd = "init" =>
        /\ args.no_workspace =>
            /\ workspace = None
            /\ members = <<>>
            /\ err.kind # "DiscoverWorkspace"
        /\ err.kind = "DiscoverWorkspace" =>
            /\ ~args.no_workspace
            /\ pc = "failed"
            /\ status = "Error"
            /\ "--no-workspace" \in err.flags
            /\ ~disk.exists
            /\ files = {}
            /\ members = <<>>
            /\ trace = <<>>

\* init --no-workspace has created the project and imported into it, past
\* workspace discovery and the step that writes the members.
C30_Witness ==
    /\ cmd = "init"
    /\ args.no_workspace
    /\ IsSome(args.from_project)
    /\ pc = "done"
    /\ status = "Success"
    /\ disk.exists
    /\ InTrace("write")
    /\ workspace = None
    /\ members = <<>>

\* `uv tool install` has found the requirement to install, a tool that has a
\* receipt, and was given neither --force nor a reinstall setting.
AlreadyInstalled ==
    /\ cmd = "tool install"
    /\ FromRequirement(args.package, args.from).ok
    /\ IsSome(installed.receipts[FromRequirement(args.package, args.from).value.name])
    /\ ~args.force
    /\ args.reinstall = ReinstallNone

\* C31: tool install of a tool that has a receipt, without --force and with
\* the reinstall setting None, ends after the receipt was looked up, with the
\* exit status Failure (or with the error of reading the receipt), and the
\* environments, the executables and the receipts are as it found them.
C31_AlreadyInstalledIsLeftAlone ==
    AlreadyInstalled =>
        /\ pc \in {"tool_from", "tool_receipt", "done", "failed"}
        /\ NothingMutated
        /\ pc = "done" => status = "Failure" /\ err = NoError
        /\ pc = "failed" => err.kind = "Io"

\* Tool "a" is installed and `uv tool install a --with b` reports so.
C31_Witness ==
    /\ AlreadyInstalled
    /\ args.package = "a"
    /\ args.from = None
    /\ args.with = <<"b">>
    /\ pc = "done"
    /\ status = "Failure"
    /\ receipts["a"] = Some(PreviousReceipt("a"))
    /\ environments["a"] = "previous"

\* The entry points of the tool are being replaced: it has a receipt, and
\* --force or the reinstall setting asks for the tool.
Reinstalling ==
    LET name == FromRequirement(args.package, args.from).value.name IN
    /\ IsSome(installed.receipts[name])
    /\ \/ args.force
       \/ args.reinstall.kind = "All"
       \/ args.reinstall.kind = "Packages" /\ name \in args.reinstall.packages

\* The tool has no receipt, --force is not given, and a file exists where
\* one of its entry points is to go.
TargetTaken ==
    /\ cmd = "tool install"
    /\ FromRequirement(args.package, args.from).ok
    /\ LET name == FromRequirement(args.package, args.from).value.name IN
        /\ installed.receipts[name] = None
        /\ \E e \in EntrypointPaths(name) : installed.executables[e] # "absent"
    /\ ~args.force

\* C32: a file tool install found in the executable directory is removed or
\* replaced only under --force or when the tool is being reinstalled; when
\* the tool has no receipt, --force is not given and a target exists, the
\* command does not get to install an entry point or to succeed, and the
\* executables and the receipts are as it found them.
C32_ExistingTargetsAreKept ==
    /\ cmd = "tool install" =>
        \A e \in Executables :
            (installed.executables[e] # "absent"
                /\ executables[e] # installed.executables[e]) =>
                    (args.force \/ Reinstalling)
    /\ TargetTaken =>
        /\ pc \notin {"tool_install", "tool_add_receipt", "done"}
        /\ executables = installed.executables
        /\ receipts = installed.receipts
        /\ ~InTrace("remove_file")
        /\ ~InTrace("replace_symlink")
        /\ ~InTrace("add_tool_receipt")

\* `uv tool install a --reinstall` where a file of the user has the name of
\* an entry point of a: refused, the file left.
C32_Witness ==
    /\ TargetTaken
    /\ args.reinstall = ReinstallAll
    /\ pc = "failed"
    /\ err.kind = "EntryPointsExist"
    /\ executables[1] = "foreign"
    /\ receipts["a"] = None

\* install bailed because the package has no entry points, or because a
\* target exists that it may not overwrite.
NoTool ==
    /\ cmd = "tool install"
    /\ pc = "failed"
    /\ err.kind \in {"NoEntryPoints", "EntryPointsExist"}

\* C33: when tool install reports a package without entry points, or
\* existing targets, it has created or updated the environment of the tool
\* and its last act was to remove it: the tool has no environment; and a
\* package without entry points gets no further than that report.
C33_FailedInstallRemovesEnvironment ==
    /\ NoTool =>
        /\ InTrace("environment")
        /\ InTrace("update")
        /\ trace[Len(trace)] = "remove_environment"
        /\ environments[tool.name] = "absent"
        /\ err.kind = "NoEntryPoints" <=> EntrypointPaths(tool.name) = {}
    /\ (cmd = "tool install"
            /\ pc \in {"tool_existing", "tool_install", "tool_add_receipt"}) =>
        tool.target_entry_points # {}

\* `uv tool install b`: b was installed into a new environment, has no entry
\* points, and its environment is gone again.
C33_Witness ==
    /\ NoTool
    /\ tool.name = "b"
    /\ err.kind = "NoEntryPoints"
    /\ trace = <<"environment", "update", "remove_environment">>
    /\ environments["b"] = "absent"

\* The executables that are links this invocation made.
Linked == {e \in Executables : executables[e] = "installed"}

\* C34: tool install calls add_tool_receipt only with every target entry
\* point linked; a receipt that differs from the one found is that of the
\* tool installed, written as the last act of a successful invocation, and
\* lists the entry points linked; an invocation that failed, or ended
\* without writing a receipt, has left the receipts as they were.
C34_ReceiptIsWrittenLast ==
    cmd = "tool install" =>
        /\ pc = "tool_add_receipt" =>
            /\ tool.target_entry_points # {}
            /\ tool.target_entry_points = Linked
        /\ receipts # installed.receipts =>
            /\ pc = "done"
            /\ status = "Success"
            /\ trace[Len(trace)] = "add_tool_receipt"
            /\ \A n \in ToolNames \ {tool.name} :
                receipts[n] = installed.receipts[n]
            /\ Unwrap(receipts[tool.name]).entrypoints = Linked
            /\ Unwrap(receipts[tool.name]).entrypoints =
                   tool.target_entry_points
        /\ (pc = "failed" \/ ~InTrace("add_tool_receipt")) =>
            receipts = installed.receipts

\* `uv tool install a --force` over an installed a: both entry points were
\* linked anew, then the receipt was written.
C34_Witness ==
    /\ cmd = "tool install"
    /\ args.force
    /\ IsSome(installed.receipts["a"])
    /\ pc = "done"
    /\ status = "Success"
    /\ Unwrap(receipts["a"]).written = "now"
    /\ Unwrap(receipts["a"]).entrypoints = {1, 2}
    /\ Linked = {1, 2}

\* C35 (as stated): when tool install fails for a tool that had a receipt
\* and an environment, the tool still has that environment and that
\* receipt.
C35_FailedInstallKeepsTool ==
    (/\ cmd = "tool install"
     /\ pc = "failed"
     /\ FromRequirement(args.package, args.from).ok) =>
        LET name == FromRequirement(args.package, args.from).value.name IN
        (/\ IsSome(installed.receipts[name])
         /\ installed.environments[name] = "previous") =>
            /\ environments[name] = "previous"
            /\ receipts[name] = installed.receipts[name]

====
